---------------------------- MODULE Spec2Model ----------------------------
(***************************************************************************)
(* progressx: the hierarchical step engine (declarative run()/pipe(), the  *)
(* legacy fluent execute()) and the MultiProgress task registry/renderer   *)
(* it drives, as a state machine.                                          *)
(*                                                                         *)
(* Conventions.  Task ids ("task-<ms>-<random>") are modelled as fresh     *)
(* naturals handed out by a counter.  The clock is not modelled: Date.now() *)
(* reads one instant, so every elapsed time is 0 ms.  A title is a record: *)
(* its text and, when the engine appended " (current/total)", that pair.   *)
(***************************************************************************)
EXTENDS Integers, Sequences, FiniteSets, TLC

(***************************************************************************)
(* Bounds of the model.                                                    *)
(***************************************************************************)
MaxTicks == 1      \* animation ticks that fire in one behaviour
MaxEvents == 2     \* step()-calls and generator events in one behaviour
MaxTasks == 3      \* records added through the bare MultiProgress API
MaxCalls == 4      \* calls made on the bare MultiProgress API

(***************************************************************************)
(* Values shared by the components.                                        *)
(***************************************************************************)
NoId == 0          \* undefined / null where the code holds an id or a timer
UnknownId == MaxTasks + 1    \* an id string that names no record
NoTime == -1       \* completionTime undefined
now == 0           \* Date.now()
NoProg == -1       \* a title without a " (c/t)" suffix

Title(text) == [text |-> text, cur |-> NoProg, tot |-> NoProg]
TitleProg(text, c, t) == [text |-> text, cur |-> c, tot |-> t]
NoTitle == Title("")

SPINNER_FRAMES(style) ==
    IF style = "dots"
    THEN <<"f0", "f1", "f2", "f3", "f4", "f5", "f6", "f7", "f8", "f9">>
    ELSE <<"-", "\\", "|", "/">>

STATUS_ICONS(status) ==
    CASE status = "pending" -> "o"
      [] status = "running" -> ""
      [] status = "completed" -> "ok"
      [] status = "failed" -> "x"
      [] status = "skipped" -> "skip"

(***************************************************************************)
(* The output stream: what one operation wrote, the cursor visibility the  *)
(* writes leave, and the terminal they act on: `screen' maps each row this *)
(* instance wrote to to the line it holds now (NoLine: blank), `row' is    *)
(* the cursor's row, row 1 being where the cursor was at construction.     *)
(***************************************************************************)
NoLine == [icon |-> "", indent |-> 0, title |-> NoTitle, bar |-> -1, time |-> NoTime]
Tok(op, n) == [op |-> op, n |-> n, line |-> NoLine]
CURSOR_HIDE == Tok("hide", 0)
CURSOR_SHOW == Tok("show", 0)
cursorUp(n) == Tok("up", n)
CLEAR_LINE_NL == Tok("clearline", 0)
NEWLINE == Tok("nl", 0)
LineTok(line) == [op |-> "line", n |-> 0, line |-> line]

write(w, tok) ==
    [w EXCEPT !.wrote = Append(@, tok),
              !.hidden = IF tok.op = "hide" THEN TRUE
                         ELSE IF tok.op = "show" THEN FALSE ELSE @,
              !.screen = IF tok.op \in {"line", "clearline"}
                         THEN (w.row :> tok.line) @@ @
                         ELSE @,
              !.row = IF tok.op = "up" THEN @ - tok.n
                      ELSE IF tok.op \in {"line", "clearline", "nl"} THEN @ + 1
                      ELSE @]

RECURSIVE writeAll(_, _)
writeAll(w, toks) ==
    IF toks = <<>> THEN w ELSE writeAll(write(w, Head(toks)), Tail(toks))

isTTY(w) == w.tty

(***************************************************************************)
(* MultiProgress.  `w' is the instance together with its stream and the    *)
(* host's interval timers; every method maps w to the w it leaves.         *)
(***************************************************************************)
NewMultiProgress(tty) ==
    [tasks |-> <<>>, taskOrder |-> <<>>, isActive |-> FALSE, timer |-> NoId,
     frameIndex |-> 0, renderedLines |-> 0,
     tty |-> tty, hidden |-> FALSE, wrote |-> <<>>, screen |-> <<>>, row |-> 1,
     timers |-> {}, timersMade |-> 0]

\* The writes of the operation that is about to run start from nothing.
Begin(w) == [w EXCEPT !.wrote = <<>>]

indexOf(seq, x) ==
    IF \E i \in 1..Len(seq) : seq[i] = x
    THEN CHOOSE i \in 1..Len(seq) : seq[i] = x /\ \A j \in 1..(i - 1) : seq[j] # x
    ELSE 0

\* A splice that puts x before the element at position `at'.
splice_before(seq, at, x) ==
    SubSeq(seq, 1, at - 1) \o <<x>> \o SubSeq(seq, at, Len(seq))

splice(seq, at, x) ==
    SubSeq(seq, 1, at) \o <<x>> \o SubSeq(seq, at + 1, Len(seq))

Round(num, den) == (2 * num + den) \div (2 * den)

renderLine(w, id) ==
    LET task == w.tasks[id]
        frames == SPINNER_FRAMES(task.spinnerStyle)
        icon == IF task.status = "running"
                THEN IF task.type = "group"
                     THEN STATUS_ICONS("pending")
                     ELSE frames[(w.frameIndex % Len(frames)) + 1]
                ELSE STATUS_ICONS(task.status)
        bar == IF task.type = "bar" /\ task.total > 0
               THEN Round(20 * task.current, task.total)
               ELSE -1
        time == IF task.status = "completed" /\ task.completionTime # NoTime
                THEN task.completionTime
                ELSE NoTime
    IN [icon |-> icon, indent |-> task.indent, title |-> task.title,
        bar |-> bar, time |-> time]

\* render() without its `this.renderedLines = lines.length'.
render_noBaseline(w) ==
    IF ~isTTY(w) THEN w
    ELSE LET up == IF w.renderedLines > 0
                   THEN <<cursorUp(w.renderedLines)>> ELSE <<>>
             lines == [i \in 1..Len(w.taskOrder) |->
                          LineTok(renderLine(w, w.taskOrder[i]))]
         IN writeAll(w, up \o lines)

\* render() without its `if (!isTTY(this.stream)) return'.
render_always(w) ==
    LET up == IF w.renderedLines > 0
              THEN <<cursorUp(w.renderedLines)>> ELSE <<>>
        lines == [i \in 1..Len(w.taskOrder) |->
                     LineTok(renderLine(w, w.taskOrder[i]))]
    IN [writeAll(w, up \o lines) EXCEPT !.renderedLines = Len(lines)]

render(w) ==
    IF ~isTTY(w) THEN w
    ELSE LET up == IF w.renderedLines > 0
                   THEN <<cursorUp(w.renderedLines)>> ELSE <<>>
             lines == [i \in 1..Len(w.taskOrder) |->
                          LineTok(renderLine(w, w.taskOrder[i]))]
         IN [writeAll(w, up \o lines) EXCEPT !.renderedLines = Len(lines)]

\* The id add() is about to assign.
NextTaskId(w) == Len(w.tasks) + 1

\* add() that ignores insertAfter and always appends.
MultiProgress_add_append(w, title, opts) ==
    LET id == Len(w.tasks) + 1
        task == [id |-> id, title |-> title, type |-> opts.type,
                 status |-> "pending", total |-> opts.total, current |-> 0,
                 spinnerStyle |-> opts.spinnerStyle, indent |-> opts.indent,
                 completionTime |-> NoTime]
        w1 == [w EXCEPT !.tasks = Append(@, task), !.taskOrder = Append(@, id)]
    IN IF w1.isActive THEN render(w1) ELSE w1

MultiProgress_add(w, title, opts) ==
    LET id == NextTaskId(w)
        task == [id |-> id, title |-> title, type |-> opts.type,
                 status |-> "pending", total |-> opts.total, current |-> 0,
                 spinnerStyle |-> opts.spinnerStyle, indent |-> opts.indent,
                 completionTime |-> NoTime]
        afterIndex == indexOf(w.taskOrder, opts.insertAfter)
        order == IF opts.insertAfter # NoId
                 THEN IF afterIndex >= 1
                      THEN splice(w.taskOrder, afterIndex, id)
                      ELSE Append(w.taskOrder, id)
                 ELSE Append(w.taskOrder, id)
        w1 == [w EXCEPT !.tasks = Append(@, task), !.taskOrder = order]
    IN IF w1.isActive THEN render(w1) ELSE w1

AddOpts(type, total, indent, insertAfter) ==
    [type |-> type, total |-> total, spinnerStyle |-> "dots",
     indent |-> indent, insertAfter |-> insertAfter]

setInterval(w) ==
    [w EXCEPT !.timersMade = @ + 1, !.timers = @ \cup {w.timersMade + 1},
              !.timer = w.timersMade + 1]

\* A clearInterval that leaves the timer running.
clearInterval_none(w) == w

clearInterval(w) == [w EXCEPT !.timers = @ \ {w.timer}]

MultiProgress_start(w) ==
    IF w.isActive THEN w
    ELSE LET w1 == [w EXCEPT !.isActive = TRUE]
             w2 == IF isTTY(w1) THEN write(w1, CURSOR_HIDE) ELSE w1
         IN setInterval(render(w2))

\* The setInterval callback of timer t.
MultiProgress_tick(w) ==
    render([w EXCEPT !.frameIndex = (@ + 1) % 10])

RECURSIVE repeatTok(_, _)
repeatTok(tok, n) == IF n = 0 THEN <<>> ELSE <<tok>> \o repeatTok(tok, n - 1)

\* stop(true) that clears the lines and leaves the cursor below them.
MultiProgress_stop_noRewind(w, clear) ==
    IF ~w.isActive THEN w
    ELSE LET w1 == [w EXCEPT !.isActive = FALSE]
             w2 == IF w1.timer # NoId
                   THEN [w1 EXCEPT !.timers = @ \ {w1.timer}, !.timer = NoId]
                   ELSE w1
             w3 == IF clear /\ isTTY(w2)
                   THEN IF w2.renderedLines > 0
                        THEN writeAll(w2,
                                 <<cursorUp(w2.renderedLines)>>
                                 \o repeatTok(CLEAR_LINE_NL, w2.renderedLines))
                        ELSE w2
                   ELSE write(render(w2), NEWLINE)
         IN IF isTTY(w3) THEN write(w3, CURSOR_SHOW) ELSE w3

\* stop() without its `if (!this.isActive) return'.
MultiProgress_stop_unguarded(w, clear) ==
    LET w1 == [w EXCEPT !.isActive = FALSE]
        w2 == IF w1.timer # NoId
              THEN [w1 EXCEPT !.timers = @ \ {w1.timer}, !.timer = NoId]
              ELSE w1
        w3 == IF clear /\ isTTY(w2)
              THEN IF w2.renderedLines > 0
                   THEN writeAll(w2,
                            <<cursorUp(w2.renderedLines)>>
                            \o repeatTok(CLEAR_LINE_NL, w2.renderedLines)
                            \o <<cursorUp(w2.renderedLines)>>)
                   ELSE w2
              ELSE write(render(w2), NEWLINE)
    IN IF isTTY(w3) THEN write(w3, CURSOR_SHOW) ELSE w3

MultiProgress_stop(w, clear) ==
    IF ~w.isActive THEN w
    ELSE LET w1 == [w EXCEPT !.isActive = FALSE]
             w2 == IF w1.timer # NoId
                   THEN [clearInterval(w1) EXCEPT !.timer = NoId]
                   ELSE w1
             w3 == IF clear /\ isTTY(w2)
                   THEN IF w2.renderedLines > 0
                        THEN writeAll(w2,
                                 <<cursorUp(w2.renderedLines)>>
                                 \o repeatTok(CLEAR_LINE_NL, w2.renderedLines)
                                 \o <<cursorUp(w2.renderedLines)>>)
                        ELSE w2
                   ELSE write(render(w2), NEWLINE)
         IN IF isTTY(w3) THEN write(w3, CURSOR_SHOW) ELSE w3

\* updates: a set of <<field, value>> pairs (a Partial<TaskState>).
assign(task, updates) ==
    [f \in DOMAIN task |->
        IF \E u \in updates : u[1] = f
        THEN (CHOOSE u \in updates : u[1] = f)[2]
        ELSE task[f]]

\* _updateTask that assigns the updates to every record of the instance.
updateTask_every(w, id, updates) ==
    IF id \in DOMAIN w.tasks
    THEN LET w1 == [w EXCEPT !.tasks = [i \in DOMAIN w.tasks |-> assign(w.tasks[i], updates)]]
         IN IF w1.isActive THEN render(w1) ELSE w1
    ELSE w

\* _updateTask that changes the record and leaves the redraw to the timer.
updateTask_noRender(w, id, updates) ==
    IF id \in DOMAIN w.tasks
    THEN [w EXCEPT !.tasks[id] = assign(@, updates)]
    ELSE w

updateTask(w, id, updates) ==
    IF id \in DOMAIN w.tasks
    THEN LET w1 == [w EXCEPT !.tasks[id] = assign(@, updates)]
         IN IF w1.isActive THEN render(w1) ELSE w1
    ELSE w

getTask(w, id) == w.tasks[id]

(***************************************************************************)
(* TaskHandle.  A handle is the id it wraps.                               *)
(***************************************************************************)
NoArg == [kind |-> "none", time |-> NoTime, title |-> NoTitle]
TimeArg(ms) == [kind |-> "time", time |-> ms, title |-> NoTitle]
TitleArg(t) == [kind |-> "title", time |-> NoTime, title |-> t]

TaskHandle_start(w, id) == updateTask(w, id, {<<"status", "running">>})

TaskHandle_update(w, id, current) == updateTask(w, id, {<<"current", current>>})

TaskHandle_complete(w, id, titleOrTime) ==
    updateTask(w, id,
        {<<"status", "completed">>}
        \cup (IF titleOrTime.kind = "time"
              THEN {<<"completionTime", titleOrTime.time>>}
              ELSE IF titleOrTime.kind = "title" /\ titleOrTime.title.text # ""
                   THEN {<<"title", titleOrTime.title>>}
                   ELSE {}))

TaskHandle_fail(w, id, title) ==
    updateTask(w, id,
        {<<"status", "failed">>}
        \cup (IF title.kind = "title" /\ title.title.text # ""
              THEN {<<"title", title.title>>} ELSE {}))

TaskHandle_skip(w, id, title) ==
    updateTask(w, id,
        {<<"status", "skipped">>}
        \cup (IF title.kind = "title" /\ title.title.text # ""
              THEN {<<"title", title.title>>} ELSE {}))

TaskHandle_setTitle(w, id, title) == updateTask(w, id, {<<"title", title>>})

\* setType that also puts the record back to pending.
TaskHandle_setType_reset(w, id, type) ==
    updateTask(w, id, {<<"type", type>>, <<"status", "pending">>})

TaskHandle_setType(w, id, type) == updateTask(w, id, {<<"type", type>>})

TaskHandle_status(w, id) ==
    IF id \in DOMAIN w.tasks THEN getTask(w, id).status ELSE "pending"


(***************************************************************************)
(* JavaScript values a work item takes and returns.                        *)
(***************************************************************************)
Num(n) == [t |-> "num", n |-> n]
Undefined == [t |-> "undefined", n |-> 0]
NaN == [t |-> "NaN", n |-> 0]

\* The work items of the declarations below: () => 10, x => x * 2,
\* x => x + 5 and () => {}, applied to an argument list.
Apply(fn, args) ==
    LET x == IF args = <<>> THEN Undefined ELSE args[1]
    IN CASE fn = "ten" -> Num(10)
         [] fn = "double" -> IF x.t = "num" THEN Num(x.n * 2) ELSE NaN
         [] fn = "add5" -> IF x.t = "num" THEN Num(x.n + 5) ELSE NaN
         [] fn = "void" -> Undefined

(***************************************************************************)
(* Step tree model (step-node.ts): declaration -> StepNode tree -> the     *)
(* flattened, depth-first node list.                                       *)
(***************************************************************************)
Work(key, fn) == [key |-> key, t |-> "work", label |-> "", fn |-> fn, entries |-> <<>>]
Pair(key, label, fn) == [key |-> key, t |-> "pair", label |-> label, fn |-> fn, entries |-> <<>>]
Group(key, entries) == [key |-> key, t |-> "group", label |-> "", fn |-> "", entries |-> entries]

generateLabel(key) ==
    CASE key = "a" -> "A"
      [] key = "b" -> "B"
      [] key = "c" -> "C"
      [] key = "x" -> "X"
      [] key = "g" -> "G"
      [] key = "h" -> "H"
      [] key = "e" -> "E"
      [] key = "loadModules" -> "Load modules"
      [] OTHER -> key

RECURSIVE parseStepsDef(_, _)
parseStepsDef(def, indent) ==
    [i \in 1..Len(def) |->
        LET entry == def[i]
        IN CASE entry.t = "work" ->
                  [key |-> entry.key, label |-> generateLabel(entry.key),
                   indent |-> indent, hasChildren |-> FALSE, children |-> <<>>,
                   work |-> entry.fn]
             [] entry.t = "pair" ->
                  [key |-> entry.key, label |-> entry.label,
                   indent |-> indent, hasChildren |-> FALSE, children |-> <<>>,
                   work |-> entry.fn]
             [] entry.t = "group" ->
                  [key |-> entry.key, label |-> generateLabel(entry.key),
                   indent |-> indent, hasChildren |-> TRUE,
                   children |-> parseStepsDef(entry.entries, indent + 1),
                   work |-> ""]]

\* A flattened node keeps `span', the number of nodes of its subtree, in
\* place of the object references of the tree.
RECURSIVE flattenStepNodes(_)
flattenStepNodes(nodes) ==
    IF nodes = <<>> THEN <<>>
    ELSE LET node == Head(nodes)
             below == flattenStepNodes(node.children)
         IN <<[key |-> node.key, label |-> node.label, indent |-> node.indent,
               hasChildren |-> node.hasChildren, work |-> node.work,
               span |-> 1 + Len(below)]>>
            \o below \o flattenStepNodes(Tail(nodes))

hasWork(node) == node.work # ""

\* The leaf descendants of the node at position i of the flattened list.
getLeafNodes(all, i) ==
    {j \in i..(i + all[i].span - 1) : hasWork(all[j])}

SeqOfSet(S) ==
    LET RECURSIVE build(_)
        build(T) == IF T = {} THEN <<>>
                    ELSE LET m == CHOOSE x \in T : \A y \in T : x <= y
                         IN <<m>> \o build(T \ {m})
    IN build(S)

groupLeaves(all, g) == getLeafNodes(all, g)

\* The groups a leaf lies under, in flattened (outermost first) order.
leafToGroups(all, leaf) ==
    SeqOfSet({g \in 1..Len(all) : all[g].hasChildren /\ leaf \in getLeafNodes(all, g)})

(***************************************************************************)
(* The declarations the runner is constructed with.                        *)
(***************************************************************************)
Def1 == <<Work("a", "ten"), Work("b", "double"), Work("c", "add5")>>
Def2 == <<Group("g", <<Group("h", <<Work("a", "ten")>>), Work("b", "void")>>),
          Pair("c", "Custom", "double")>>
Def3 == <<Group("g", <<Work("x", "ten")>>), Group("e", <<>>),
          Group("h", <<Work("x", "add5")>>)>>
Def4 == <<Group("g", <<Group("h", <<Work("a", "ten")>>)>>), Work("b", "void")>>
StepsDefs == <<Def1, Def2, Def4, Def3>>

\* The (title, work) pairs registered on the fluent builder.
Fluent1 == <<[title |-> "S1", work |-> "ten"], [title |-> "S2", work |-> "void"]>>
Fluent2 == <<[title |-> "S", work |-> "ten"], [title |-> "S", work |-> "double"]>>
FluentDefs == <<Fluent1, Fluent2>>


(***************************************************************************)
(* Ambient step context (als-context.ts).  A context operation acts on the *)
(* pair S = [w, ctx]: the MultiProgress it draws on and the context's own  *)
(* closure variables.                                                      *)
(***************************************************************************)
NoContext ==
    [label |-> "", handle |-> NoId, onSubStep |-> [indent |-> 0, insertAfter |-> NoId],
     currentSubLabel |-> "", currentSubHandle |-> NoId, subStepStartTime |-> 0,
     declaredHandles |-> <<>>]

createStepContext(label, handle, onSubStep) ==
    [label |-> label, handle |-> handle, onSubStep |-> onSubStep,
     currentSubLabel |-> "", currentSubHandle |-> NoId, subStepStartTime |-> 0,
     declaredHandles |-> <<>>]

ctx_completeSubStep(S, t) ==
    IF S.ctx.currentSubHandle # NoId /\ S.ctx.currentSubLabel # ""
    THEN [w |-> TaskHandle_complete(S.w, S.ctx.currentSubHandle,
                                    TimeArg(t - S.ctx.subStepStartTime)),
          ctx |-> [S.ctx EXCEPT !.currentSubHandle = NoId, !.currentSubLabel = ""]]
    ELSE S

ctx_progress(S, current, total) ==
    IF S.ctx.currentSubHandle # NoId
    THEN [S EXCEPT !.w = TaskHandle_setTitle(S.w, S.ctx.currentSubHandle,
                             TitleProg(S.ctx.currentSubLabel, current, total))]
    ELSE [S EXCEPT !.w = TaskHandle_setTitle(S.w, S.ctx.handle,
                             TitleProg(S.ctx.label, current, total))]

ctx_sub(S, subLabel, t) ==
    LET S1 == ctx_completeSubStep(S, t)
        id == NextTaskId(S1.w)
        w2 == MultiProgress_add(S1.w, Title(subLabel),
                  AddOpts("spinner", 0, S1.ctx.onSubStep.indent,
                          S1.ctx.onSubStep.insertAfter))
    IN [w |-> TaskHandle_start(w2, id),
        ctx |-> [S1.ctx EXCEPT !.currentSubLabel = subLabel,
                               !.subStepStartTime = t,
                               !.currentSubHandle = id]]

ctx_addSubHandle(S, subLabel, subHandle) ==
    [S EXCEPT !.ctx.declaredHandles = (subLabel :> subHandle) @@ @]

\* _getSubHandle that finds no declared handle.
ctx_getSubHandle_none(S, subLabel) == NoId

ctx_getSubHandle(S, subLabel) ==
    IF subLabel \in DOMAIN S.ctx.declaredHandles
    THEN S.ctx.declaredHandles[subLabel] ELSE NoId

ctx_setCurrentSubHandle(S, subLabel, subHandle, t) ==
    [S EXCEPT !.ctx.currentSubLabel = subLabel,
              !.ctx.currentSubHandle = subHandle,
              !.ctx.subStepStartTime = t]

(***************************************************************************)
(* State.                                                                  *)
(***************************************************************************)
VARIABLES
    mp,               \* the MultiProgress of the invocation, its stream, the host timers
    runner,           \* "declarative" | "fluent" | "none" (bare MultiProgress)
    allNodes,         \* stepsDeclarative: the flattened node list
    stepList,         \* createFluentBuilder: the registered steps
    mode,             \* "" | "run" | "pipe" | "execute"
    clear,            \* options.clear ?? false, as the finally block read it
    pc,               \* where the async function is suspended
    cur,              \* position of the loop in allNodes / stepList
    handles,          \* Map<StepNode | title, TaskHandle>
    groupStartTimes,  \* Map<StepNode, number>
    completedLeaves,  \* Set<StepNode>
    results,          \* run / execute: the result mapping
    previousResult,   \* pipe: the last resolved value
    stepStart,        \* executeStep: startTime
    ctx,              \* executeStep: the step context of the running leaf
    work,             \* the work item that is running
    gen,              \* runGenerator locals / GeneratorState
    pending,          \* the error propagating out of the try block
    outcome,          \* what the caller of run / pipe / execute got
    invoked,          \* history: the work items invoked, with their arguments
    settled,          \* history: the leaves resolved, with their values
    thrown,           \* history: the leaf that raised, and what
    nEvents,          \* events and API calls so far
    act               \* history: the last operation, the one before it, its argument

engineVars ==
    <<runner, allNodes, stepList, mode, clear, pc, cur, handles, groupStartTimes,
      completedLeaves, results, previousResult, stepStart, ctx, work, gen,
      pending, outcome, invoked, settled, thrown>>

vars == <<mp, engineVars, nEvents, act>>

\* The record of a step that performs `op': `prev' is the operation before
\* it on the bare API, `label' the label of the context a step() call gave
\* or the label a generator yielded, `opened' the sub-step record of the
\* current leaf that was started last (NoId: none yet).
ActL(op, id, label) ==
    [op |-> op, prev |-> IF runner = "none" THEN act.op ELSE "", id |-> id,
     label |-> label, opened |-> IF op \in {"loop", "invoke"} THEN NoId ELSE act.opened]
Act(op, id) == ActL(op, id, "")

Labels == {"A", "B"}
\* The error object the work item at position i raises.
ErrorOf(i) == <<"Error", i>>
NoError == <<>>
Variants == {"value", "deferred", "gen", "agen"}

\* What a generator yields: a batch declaration, a label, a progress update.
Declare(labels) == [k |-> "declare", labels |-> labels, label |-> "", current |-> 0, total |-> 0]
Label(l) == [k |-> "label", labels |-> <<>>, label |-> l, current |-> 0, total |-> 0]
Progress(c, t) == [k |-> "progress", labels |-> <<>>, label |-> "", current |-> c, total |-> t]
Yields == {Declare(<<"A", "B">>), Label("A"), Label("C"), Progress(1, 2)}

NoWork == [variant |-> "none", fn |-> "", args |-> <<>>]
NoGen == [hasSubSteps |-> FALSE, lastInsertedId |-> NoId, startTime |-> 0]
NoOutcome == [kind |-> "none", value |-> Undefined, error |-> NoError]
NoThrown == [node |-> 0, error |-> NoError]

InitEngine(r, nodes, steps) ==
    /\ runner = r
    /\ allNodes = nodes
    /\ stepList = steps
    /\ mode = ""
    /\ clear = FALSE
    /\ pc = "idle"
    /\ cur = 0
    /\ handles = <<>>
    /\ groupStartTimes = <<>>
    /\ completedLeaves = {}
    /\ results = <<>>
    /\ previousResult = Undefined
    /\ stepStart = 0
    /\ ctx = NoContext
    /\ work = NoWork
    /\ gen = NoGen
    /\ pending = NoError
    /\ outcome = NoOutcome
    /\ invoked = <<>>
    /\ settled = <<>>
    /\ thrown = NoThrown
    /\ nEvents = 0
    /\ act = [op |-> "new", prev |-> "", id |-> NoId, label |-> "", opened |-> NoId]

\* After construction: steps(def) or steps().run(..)...; stdout is a TTY
\* for every declaration, and redirected for the last of each kind.
Init ==
    \/ \E d \in 1..Len(StepsDefs) :
         /\ InitEngine("declarative",
                       flattenStepNodes(parseStepsDef(StepsDefs[d], 0)), <<>>)
         /\ \E tty \in {TRUE, d < Len(StepsDefs)} : mp = NewMultiProgress(tty)
    \/ \E f \in 1..Len(FluentDefs) :
         /\ InitEngine("fluent", <<>>, FluentDefs[f])
         /\ \E tty \in {TRUE, f < Len(FluentDefs)} : mp = NewMultiProgress(tty)

(***************************************************************************)
(* The animation tick: the setInterval callback runs between macrotasks.   *)
(***************************************************************************)
TickPoint ==
    \/ pc \in {"idle", "started", "enter", "genwait", "returned", "rejected", "api"}
    \/ pc = "body" /\ work.variant = "deferred"
    \/ pc = "gen" /\ work.variant = "agen"

Tick ==
    /\ TickPoint
    /\ mp.timers # {}
    /\ mp.frameIndex < MaxTicks
    /\ mp' = MultiProgress_tick(Begin(mp))
    /\ act' = Act("tick", NoId)
    /\ UNCHANGED <<engineVars, nEvents>>

(***************************************************************************)
(* stepsDeclarative: run() and pipe().                                     *)
(***************************************************************************)
\* Registration that gives every node, group or leaf, the type spinner.
RECURSIVE registerAllSteps_spinner(_, _, _)
registerAllSteps_spinner(nodes, R, i) ==
    IF i > Len(nodes) THEN R
    ELSE LET id == NextTaskId(R.w)
             w1 == MultiProgress_add(R.w, Title(nodes[i].label),
                       AddOpts("spinner", 0, nodes[i].indent, NoId))
         IN registerAllSteps_spinner(nodes,
                [w |-> w1, handles |-> Append(R.handles, id)], i + 1)

RECURSIVE registerAllSteps(_, _, _)
registerAllSteps(nodes, R, i) ==
    IF i > Len(nodes) THEN R
    ELSE LET node == nodes[i]
             isGroup == node.hasChildren /\ ~hasWork(node)
             id == NextTaskId(R.w)
             w1 == MultiProgress_add(R.w, Title(node.label),
                       AddOpts(IF isGroup THEN "group" ELSE "spinner", 0,
                               node.indent, NoId))
         IN registerAllSteps(nodes, [w |-> w1, handles |-> Append(R.handles, id)], i + 1)

Begin_run(m) ==
    /\ runner = "declarative"
    /\ pc = "idle"
    /\ LET R == registerAllSteps(allNodes, [w |-> Begin(mp), handles |-> <<>>], 1)
       IN /\ mp' = MultiProgress_start(R.w)
          /\ handles' = R.handles
    /\ mode' = m
    /\ groupStartTimes' = <<>>
    /\ completedLeaves' = {}
    /\ results' = <<>>
    /\ previousResult' = Undefined
    /\ pc' = "started"
    /\ act' = Act(m, NoId)
    /\ UNCHANGED <<clear, runner, allNodes, stepList, cur, stepStart, ctx, work, gen,
                   pending, outcome, invoked, settled, thrown, nEvents>>

\* A loop that turns to the last leaf after position i instead of the next.
nextLeaf_last(nodes, i) ==
    IF \E j \in (i + 1)..Len(nodes) : nodes[j].work # ""
    THEN CHOOSE j \in (i + 1)..Len(nodes) :
            nodes[j].work # "" /\ \A k \in (j + 1)..Len(nodes) : nodes[k].work = ""
    ELSE 0

\* The node the for loop turns to after position i: the next one with work.
nextLeaf(nodes, i) ==
    IF \E j \in (i + 1)..Len(nodes) : hasWork(nodes[j])
    THEN CHOOSE j \in (i + 1)..Len(nodes) :
            hasWork(nodes[j]) /\ \A k \in (i + 1)..(j - 1) : ~hasWork(nodes[k])
    ELSE 0

\* Starting the parent groups that marks only the outermost one running.
RECURSIVE startGroups_outermost(_, _, _, _)
startGroups_outermost(R, groups, hs, t) ==
    IF groups = <<>> THEN R
    ELSE LET group == Head(groups)
             first == \A g \in DOMAIN hs : hs[g] >= hs[group]
         IN IF group \in DOMAIN R.starts
            THEN startGroups_outermost(R, Tail(groups), hs, t)
            ELSE startGroups_outermost(
                     [w |-> IF first THEN TaskHandle_start(R.w, hs[group]) ELSE R.w,
                      starts |-> (group :> t) @@ R.starts],
                     Tail(groups), hs, t)

\* "Start parent groups if not started": R = [w, starts].
RECURSIVE startGroups(_, _, _, _)
startGroups(R, groups, hs, t) ==
    IF groups = <<>> THEN R
    ELSE LET group == Head(groups)
         IN IF group \in DOMAIN R.starts
            THEN startGroups(R, Tail(groups), hs, t)
            ELSE startGroups([w |-> TaskHandle_start(R.w, hs[group]),
                              starts |-> (group :> t) @@ R.starts],
                             Tail(groups), hs, t)

\* Group completion without the `every leaf completed' test.
RECURSIVE completeGroups_eager(_, _, _, _, _, _, _)
completeGroups_eager(w, groups, nodes, done, starts, hs, t) ==
    IF groups = <<>> THEN w
    ELSE completeGroups_eager(
             TaskHandle_complete(w, hs[Head(groups)], TimeArg(t - starts[Head(groups)])),
             Tail(groups), nodes, done, starts, hs, t)

\* "Mark leaf as complete and check group completion".
RECURSIVE completeGroups(_, _, _, _, _, _, _)
completeGroups(w, groups, nodes, done, starts, hs, t) ==
    IF groups = <<>> THEN w
    ELSE LET group == Head(groups)
             w1 == IF groupLeaves(nodes, group) \subseteq done
                   THEN TaskHandle_complete(w, hs[group], TimeArg(t - starts[group]))
                   ELSE w
         IN completeGroups(w1, Tail(groups), nodes, done, starts, hs, t)

setNestedResult(res, key, value) == (key :> value) @@ res

\* The loop turns to its next leaf and calls executeStep, which suspends on
\* its first setImmediate; with no leaf left the try block is left.
LoopStep ==
    /\ mode \in {"run", "pipe"}
    /\ pc \in {"started", "loop"}
    /\ LET j == nextLeaf(allNodes, cur)
       IN IF j = 0
          THEN /\ pc' = "finally"
               /\ mp' = Begin(mp)
               /\ UNCHANGED <<cur, groupStartTimes, stepStart>>
          ELSE LET R == startGroups([w |-> Begin(mp), starts |-> groupStartTimes],
                                    leafToGroups(allNodes, j), handles, now)
               IN /\ mp' = R.w
                  /\ groupStartTimes' = R.starts
                  /\ cur' = j
                  /\ stepStart' = now
                  /\ pc' = "enter"
    /\ act' = Act("loop", NoId)
    /\ UNCHANGED <<runner, allNodes, stepList, mode, clear, handles,
                   completedLeaves, results, previousResult, ctx, work, gen,
                   pending, outcome, invoked, settled, thrown, nEvents>>

\* A call that never passes the previous result on.
workArgs_none(input) == <<>>

\* The arguments executeStep calls the work item with.
workArgs(input) == IF input # Undefined THEN <<input>> ELSE <<>>

\* executeStep without its handle.start(): the work item is invoked while
\* the leaf's record is still pending.
Invoke_unstarted(variant) ==
    /\ mode \in {"run", "pipe"}
    /\ pc = "enter"
    /\ LET node == allNodes[cur]
           handle == handles[cur]
           args == workArgs(IF mode = "pipe" THEN previousResult ELSE Undefined)
       IN /\ ctx' = createStepContext(node.label, handle,
                        [indent |-> node.indent + 1, insertAfter |-> handle])
          /\ mp' = Begin(mp)
          /\ work' = [variant |-> variant, fn |-> node.work, args |-> args]
          /\ invoked' = Append(invoked, [node |-> cur, args |-> args])
          /\ gen' = [hasSubSteps |-> FALSE, lastInsertedId |-> handle, startTime |-> now]
    /\ pc' = IF variant \in {"value", "deferred"} THEN "body" ELSE "gen"
    /\ act' = Act("invoke", NoId)
    /\ UNCHANGED <<runner, allNodes, stepList, mode, clear, cur, handles,
                   groupStartTimes, completedLeaves, results, previousResult,
                   stepStart, pending, outcome, settled, thrown, nEvents>>

\* executeStep resumes: the context is created, the leaf started, and the
\* work item invoked inside runWithStepContext.
Invoke(variant) ==
    /\ mode \in {"run", "pipe"}
    /\ pc = "enter"
    /\ LET node == allNodes[cur]
           handle == handles[cur]
           args == workArgs(IF mode = "pipe" THEN previousResult ELSE Undefined)
       IN /\ ctx' = createStepContext(node.label, handle,
                        [indent |-> node.indent + 1, insertAfter |-> handle])
          /\ mp' = TaskHandle_start(Begin(mp), handle)
          /\ work' = [variant |-> variant, fn |-> node.work, args |-> args]
          /\ invoked' = Append(invoked, [node |-> cur, args |-> args])
          /\ gen' = [hasSubSteps |-> FALSE, lastInsertedId |-> handle, startTime |-> now]
    /\ pc' = IF variant \in {"value", "deferred"} THEN "body" ELSE "gen"
    /\ act' = Act("invoke", NoId)
    /\ UNCHANGED <<runner, allNodes, stepList, mode, clear, cur, handles,
                   groupStartTimes, completedLeaves, results, previousResult,
                   stepStart, pending, outcome, settled, thrown, nEvents>>

\* The no-op context: label "", progress and sub do nothing.
NO_OP_CONTEXT == NoContext

\* One module-level `current context' in place of the AsyncLocalStorage.
getStore_global(caller) == ctx

\* stepContext.getStore() for the code that asks.  "work" is code of the
\* current work item, "outside" any other code of the program.  The store
\* is set by runWithStepContext for the call of the work function and for
\* the asynchronous continuations that call creates; a generator's body
\* runs later, from gen.next() in runGenerator / runAsyncGenerator, where
\* no store is set.  NoContext stands for `undefined'.
getStore(caller) ==
    IF caller = "work" /\ mode \in {"run", "pipe"} /\ pc = "body"
    THEN ctx
    ELSE NoContext

step(caller) ==
    IF getStore(caller) # NoContext THEN getStore(caller) ELSE NO_OP_CONTEXT

\* progress and sub of the context c that step() returned.
StepContext_progress(S, c, current, total) ==
    IF c = NO_OP_CONTEXT THEN S ELSE ctx_progress(S, current, total)

StepContext_sub(S, c, subLabel, t) ==
    IF c = NO_OP_CONTEXT THEN S ELSE ctx_sub(S, subLabel, t)

\* The work item calls step().sub(label) / step().progress(c, t).
CtxSub(l) ==
    /\ mode \in {"run", "pipe"}
    /\ pc = "body"
    /\ nEvents < MaxEvents
    /\ LET c == step("work")
           S == StepContext_sub([w |-> Begin(mp), ctx |-> ctx], c, l, now)
       IN /\ mp' = S.w /\ ctx' = S.ctx
          /\ act' = [ActL("sub", NoId, c.label) EXCEPT !.opened = S.ctx.currentSubHandle]
    /\ nEvents' = nEvents + 1
    /\ UNCHANGED <<runner, allNodes, stepList, mode, clear, pc, cur, handles,
                   groupStartTimes, completedLeaves, results, previousResult,
                   stepStart, work, gen, pending, outcome, invoked, settled, thrown>>

CtxProgress(c, t) ==
    /\ mode \in {"run", "pipe"}
    /\ pc = "body"
    /\ nEvents < MaxEvents
    /\ LET sc == step("work")
           S == StepContext_progress([w |-> Begin(mp), ctx |-> ctx], sc, c, t)
       IN mp' = S.w /\ ctx' = S.ctx /\ act' = ActL("progress", NoId, sc.label)
    /\ nEvents' = nEvents + 1
    /\ UNCHANGED <<runner, allNodes, stepList, mode, clear, pc, cur, handles,
                   groupStartTimes, completedLeaves, results, previousResult,
                   stepStart, work, gen, pending, outcome, invoked, settled, thrown>>

\* const c = step(); c.progress(1, 2); c.sub("A"); c.label -- by `caller'.
stepCalls(caller, op) ==
    /\ act.op # op
    /\ nEvents < MaxEvents
    /\ LET c == step(caller)
           S1 == StepContext_progress([w |-> Begin(mp), ctx |-> ctx], c, 1, 2)
           S2 == StepContext_sub(S1, c, "A", now)
       IN /\ mp' = S2.w /\ ctx' = S2.ctx
          /\ act' = [ActL(op, NoId, c.label) EXCEPT
                        !.opened = IF c = NO_OP_CONTEXT THEN @ ELSE S2.ctx.currentSubHandle]
    /\ nEvents' = nEvents + 1
    /\ UNCHANGED <<runner, allNodes, stepList, mode, clear, pc, cur, handles,
                   groupStartTimes, completedLeaves, results, previousResult,
                   stepStart, work, gen, pending, outcome, invoked, settled,
                   thrown>>

\* Code that belongs to no work item calls step(): before, between, during
\* and after the leaves, whenever the engine is not running synchronously.
StepOutside ==
    /\ runner # "none"
    /\ TickPoint
    /\ stepCalls("outside", "step.outside")

\* The body of a generator work item, run by gen.next(), calls step().
StepInGenerator ==
    /\ mode \in {"run", "pipe"}
    /\ pc = "gen"
    /\ stepCalls("work", "step.gen")

\* A work function that keeps the context, `const c = step()', and returns a
\* generator: the generator's body calls c.sub(l).
GenCtxSub(l) ==
    /\ mode \in {"run", "pipe"}
    /\ pc = "gen"
    /\ nEvents < MaxEvents
    /\ LET S == ctx_sub([w |-> Begin(mp), ctx |-> ctx], l, now)
       IN /\ mp' = S.w /\ ctx' = S.ctx
          /\ act' = [ActL("gen.sub", NoId, ctx.label) EXCEPT
                        !.opened = S.ctx.currentSubHandle]
    /\ nEvents' = nEvents + 1
    /\ UNCHANGED <<runner, allNodes, stepList, mode, clear, pc, cur, handles,
                   groupStartTimes, completedLeaves, results, previousResult,
                   stepStart, work, gen, pending, outcome, invoked, settled, thrown>>

\* The leaf resolved with `value': executeStep completes the open sub-step
\* and the leaf (since `since'), then run()/pipe() record the result and
\* complete the groups whose leaves are all done.
leafResolved(value, since) ==
    LET S1 == ctx_completeSubStep([w |-> Begin(mp), ctx |-> ctx], now)
        w2 == TaskHandle_complete(S1.w, handles[cur], TimeArg(now - since))
        done == completedLeaves \cup {cur}
    IN /\ ctx' = NoContext
       /\ work' = NoWork
       /\ gen' = NoGen
       /\ results' = IF mode = "run"
                     THEN setNestedResult(results, allNodes[cur].key, value)
                     ELSE results
       /\ previousResult' = IF mode = "pipe" THEN value ELSE previousResult
       /\ completedLeaves' = done
       /\ mp' = completeGroups(w2, leafToGroups(allNodes, cur), allNodes, done,
                               groupStartTimes, handles, now)
       /\ settled' = Append(settled, [node |-> cur, value |-> value])
       /\ pc' = "loop"
       /\ UNCHANGED <<runner, allNodes, stepList, mode, clear, cur, handles,
                      groupStartTimes, stepStart, pending, outcome,
                      invoked, thrown, nEvents>>

\* A catch that rethrows without marking the leaf failed.
leafFailed_unmarked(e) ==
    /\ mp' = Begin(mp)
    /\ pending' = e
    /\ thrown' = [node |-> cur, error |-> e]
    /\ pc' = "finally"
    /\ UNCHANGED <<runner, allNodes, stepList, mode, clear, cur, handles,
                   groupStartTimes, completedLeaves, results, previousResult,
                   stepStart, ctx, work, gen, outcome, invoked, settled, nEvents>>

\* A catch that marks the leaf failed and swallows the error: the loop goes on.
leafFailed_swallow(e) ==
    /\ mp' = TaskHandle_fail(Begin(mp), handles[cur], NoArg)
    /\ thrown' = [node |-> cur, error |-> e]
    /\ pc' = "loop"
    /\ UNCHANGED <<runner, allNodes, stepList, mode, clear, cur, handles,
                   groupStartTimes, completedLeaves, results, previousResult,
                   stepStart, ctx, work, gen, pending, outcome, invoked, settled,
                   nEvents>>

\* The leaf raised `e': the catch of executeStep marks it failed and rethrows.
leafFailed(e) ==
    /\ mp' = TaskHandle_fail(Begin(mp), handles[cur], NoArg)
    /\ pending' = e
    /\ thrown' = [node |-> cur, error |-> e]
    /\ pc' = "finally"
    /\ UNCHANGED <<runner, allNodes, stepList, mode, clear, cur, handles,
                   groupStartTimes, completedLeaves, results, previousResult,
                   stepStart, ctx, work, gen, outcome, invoked, settled, nEvents>>

Return ==
    /\ mode \in {"run", "pipe"}
    /\ pc = "body"
    /\ leafResolved(Apply(work.fn, work.args), stepStart)
    /\ act' = Act("return", NoId)

Throw ==
    /\ mode \in {"run", "pipe"}
    /\ pc = "body"
    /\ leafFailed(ErrorOf(cur))
    /\ act' = Act("throw", NoId)

\* runGenerator / runAsyncGenerator: one yielded value is handled.
processEvent(S, g, value, node, t) ==
    CASE value.k = "declare" ->
           LET S0 == IF ~g.hasSubSteps
                     THEN [S EXCEPT !.w = TaskHandle_setType(S.w, S.ctx.handle, "group")]
                     ELSE S
               RECURSIVE declareAll(_, _, _)
               declareAll(T, last, labels) ==
                   IF labels = <<>> THEN [S |-> T, last |-> last]
                   ELSE LET id == NextTaskId(T.w)
                            w1 == MultiProgress_add(T.w, Title(Head(labels)),
                                      AddOpts("spinner", 0, node.indent + 1, last))
                        IN declareAll(ctx_addSubHandle([T EXCEPT !.w = w1],
                                                       Head(labels), id),
                                      id, Tail(labels))
               D == declareAll(S0, g.lastInsertedId, value.labels)
           IN [S |-> D.S, g |-> [g EXCEPT !.hasSubSteps = TRUE,
                                          !.lastInsertedId = D.last]]
      [] value.k = "label" ->
           LET S1 == ctx_completeSubStep(S, t)
               S2 == IF ~g.hasSubSteps
                     THEN [S1 EXCEPT !.w = TaskHandle_setType(S1.w, S1.ctx.handle, "group")]
                     ELSE S1
               existingHandle == ctx_getSubHandle(S2, value.label)
           IN IF existingHandle # NoId
              THEN LET S3 == ctx_setCurrentSubHandle(S2, value.label, existingHandle, t)
                   IN [S |-> [S3 EXCEPT !.w = TaskHandle_start(S3.w, existingHandle)],
                       g |-> [g EXCEPT !.hasSubSteps = TRUE]]
              ELSE LET id == NextTaskId(S2.w)
                       w1 == MultiProgress_add(S2.w, Title(value.label),
                                 AddOpts("spinner", 0, node.indent + 1, g.lastInsertedId))
                       S3 == ctx_addSubHandle([S2 EXCEPT !.w = w1], value.label, id)
                   IN [S |-> [S3 EXCEPT !.w = TaskHandle_start(S3.w, id)],
                       g |-> [g EXCEPT !.hasSubSteps = TRUE, !.lastInsertedId = id]]
      [] value.k = "progress" ->
           [S |-> ctx_progress(S, value.current, value.total), g |-> g]

\* The loop without its `await new Promise((r) => setTimeout(r, 0))':
\* the next gen.next() follows the event at once.
GenYield_noWait(value) ==
    /\ mode \in {"run", "pipe"}
    /\ pc = "gen"
    /\ nEvents < MaxEvents
    /\ LET P == processEvent([w |-> Begin(mp), ctx |-> ctx], gen, value,
                             allNodes[cur], now)
       IN mp' = P.S.w /\ ctx' = P.S.ctx /\ gen' = P.g
    /\ pc' = "gen"
    /\ nEvents' = nEvents + 1
    /\ act' = [ActL(CASE value.k = "label" -> "yield.label"
                       [] value.k = "declare" -> "yield.declare"
                       [] value.k = "progress" -> "yield.progress",
                     NoId, value.label)
                 EXCEPT !.opened =
                     IF value.k # "label" THEN @
                     ELSE IF ctx_getSubHandle([w |-> mp, ctx |-> ctx], value.label) # NoId
                          THEN ctx_getSubHandle([w |-> mp, ctx |-> ctx], value.label)
                          ELSE NextTaskId(mp)]
    /\ UNCHANGED <<runner, allNodes, stepList, mode, clear, cur, handles,
                   groupStartTimes, completedLeaves, results, previousResult,
                   stepStart, work, pending, outcome, invoked, settled, thrown>>

GenYield(value) ==
    /\ mode \in {"run", "pipe"}
    /\ pc = "gen"
    /\ nEvents < MaxEvents
    /\ LET P == processEvent([w |-> Begin(mp), ctx |-> ctx], gen, value,
                             allNodes[cur], now)
       IN mp' = P.S.w /\ ctx' = P.S.ctx /\ gen' = P.g
    /\ pc' = "genwait"
    /\ nEvents' = nEvents + 1
    /\ act' = [ActL(CASE value.k = "label" -> "yield.label"
                       [] value.k = "declare" -> "yield.declare"
                       [] value.k = "progress" -> "yield.progress",
                     NoId, value.label)
                 EXCEPT !.opened =
                     IF value.k # "label" THEN @
                     ELSE IF ctx_getSubHandle([w |-> mp, ctx |-> ctx], value.label) # NoId
                          THEN ctx_getSubHandle([w |-> mp, ctx |-> ctx], value.label)
                          ELSE NextTaskId(mp)]
    /\ UNCHANGED <<runner, allNodes, stepList, mode, clear, cur, handles,
                   groupStartTimes, completedLeaves, results, previousResult,
                   stepStart, work, pending, outcome, invoked, settled, thrown>>

\* The setTimeout(r, 0) after an event fires: the next gen.next() is due.
GenResume ==
    /\ pc = "genwait"
    /\ pc' = "gen"
    /\ mp' = Begin(mp)
    /\ act' = Act("resume", NoId)
    /\ UNCHANGED <<runner, allNodes, stepList, mode, clear, cur, handles,
                   groupStartTimes, completedLeaves, results, previousResult,
                   stepStart, ctx, work, gen, pending, outcome, invoked, settled,
                   thrown, nEvents>>

GenReturn ==
    /\ mode \in {"run", "pipe"}
    /\ pc = "gen"
    /\ leafResolved(Apply(work.fn, work.args), gen.startTime)
    /\ act' = Act("return", NoId)

GenThrow ==
    /\ mode \in {"run", "pipe"}
    /\ pc = "gen"
    /\ leafFailed(ErrorOf(cur))
    /\ act' = Act("throw", NoId)

\* stop() called after the loop instead of in a finally block: an error
\* leaves the function without it.
Finally_afterLoop(c) ==
    /\ pc = "finally"
    /\ clear' = c
    /\ mp' = IF pending # NoError THEN Begin(mp) ELSE MultiProgress_stop(Begin(mp), c)
    /\ IF pending # NoError
       THEN /\ outcome' = [kind |-> "rejected", value |-> Undefined, error |-> pending]
            /\ pc' = "rejected"
       ELSE /\ outcome' = [kind |-> "returned",
                           value |-> IF mode = "pipe" THEN previousResult ELSE results,
                           error |-> NoError]
            /\ pc' = "returned"
    /\ act' = Act("finally", NoId)
    /\ UNCHANGED <<runner, allNodes, stepList, mode, cur, handles,
                   groupStartTimes, completedLeaves, results, previousResult,
                   stepStart, ctx, work, gen, pending, invoked, settled, thrown,
                   nEvents>>

\* finally { multi.stop(options?.clear ?? false) }, then the call settles.
\* The caller's option is read here and nowhere else: c is its value.
Finally(c) ==
    /\ pc = "finally"
    /\ clear' = c
    /\ mp' = MultiProgress_stop(Begin(mp), c)
    /\ IF pending # NoError
       THEN /\ outcome' = [kind |-> "rejected", value |-> Undefined, error |-> pending]
            /\ pc' = "rejected"
       ELSE /\ outcome' = [kind |-> "returned",
                           value |-> IF mode = "pipe" THEN previousResult ELSE results,
                           error |-> NoError]
            /\ pc' = "returned"
    /\ act' = Act("finally", NoId)
    /\ UNCHANGED <<runner, allNodes, stepList, mode, cur, handles,
                   groupStartTimes, completedLeaves, results, previousResult,
                   stepStart, ctx, work, gen, pending, invoked, settled, thrown,
                   nEvents>>


(***************************************************************************)
(* createFluentBuilder: the legacy execute().                              *)
(***************************************************************************)
RECURSIVE registerSteps(_, _, _)
registerSteps(steps, R, i) ==
    IF i > Len(steps) THEN R
    ELSE LET id == NextTaskId(R.w)
             w1 == MultiProgress_add(R.w, Title(steps[i].title),
                                     AddOpts("spinner", 0, 0, NoId))
         IN registerSteps(steps, [w |-> w1,
                                  handles |-> (steps[i].title :> id) @@ R.handles],
                          i + 1)

Begin_execute ==
    /\ runner = "fluent"
    /\ pc = "idle"
    /\ LET R == registerSteps(stepList, [w |-> Begin(mp), handles |-> <<>>], 1)
       IN /\ mp' = MultiProgress_start(R.w)
          /\ handles' = R.handles
    /\ mode' = "execute"
    /\ results' = <<>>
    /\ pc' = "loop"
    /\ act' = Act("execute", NoId)
    /\ UNCHANGED <<clear, runner, allNodes, stepList, cur, groupStartTimes,
                   completedLeaves, previousResult, stepStart, ctx, work, gen,
                   pending, outcome, invoked, settled, thrown, nEvents>>

\* The for loop takes its next step and suspends on setImmediate.
ExecNext ==
    /\ mode = "execute"
    /\ pc = "loop"
    /\ IF cur < Len(stepList)
       THEN cur' = cur + 1 /\ pc' = "enter"
       ELSE cur' = cur /\ pc' = "finally"
    /\ mp' = Begin(mp)
    /\ act' = Act("loop", NoId)
    /\ UNCHANGED <<runner, allNodes, stepList, mode, clear, handles,
                   groupStartTimes, completedLeaves, results, previousResult,
                   stepStart, ctx, work, gen, pending, outcome, invoked, settled,
                   thrown, nEvents>>

NewGeneratorState(parentHandle, t) ==
    [currentLabel |-> "", currentHandle |-> NoId, lastInsertId |-> parentHandle,
     subStepStartTime |-> t, startTime |-> t, declaredSteps |-> <<>>]

\* step.work(createNoopStepController()); a promise's step is started as
\* soon as the call has returned it.
ExecInvoke(variant) ==
    /\ mode = "execute"
    /\ pc = "enter"
    /\ LET handle == handles[stepList[cur].title]
       IN /\ mp' = IF variant = "deferred"
                   THEN TaskHandle_start(Begin(mp), handle)
                   ELSE Begin(mp)
          /\ gen' = NewGeneratorState(handle, now)
    /\ work' = [variant |-> variant, fn |-> stepList[cur].work, args |-> <<>>]
    /\ invoked' = Append(invoked, [node |-> cur, args |-> <<>>])
    /\ pc' = IF variant \in {"value", "deferred"} THEN "body" ELSE "gen"
    /\ act' = Act("invoke", NoId)
    /\ UNCHANGED <<runner, allNodes, stepList, mode, clear, cur, handles,
                   groupStartTimes, completedLeaves, results, previousResult,
                   stepStart, ctx, pending, outcome, settled, thrown, nEvents>>

stepResolved(w, value) ==
    /\ mp' = w
    /\ results' = (stepList[cur].title :> value) @@ results
    /\ settled' = Append(settled, [node |-> cur, value |-> value])
    /\ pc' = "loop"
    /\ work' = NoWork
    /\ gen' = NoGen
    /\ UNCHANGED <<runner, allNodes, stepList, mode, clear, cur, handles,
                   groupStartTimes, completedLeaves, previousResult, stepStart,
                   ctx, pending, outcome, invoked, thrown, nEvents>>

\* Nothing catches in execute(): the error leaves the try block as it is.
stepFailed(e) ==
    /\ mp' = Begin(mp)
    /\ pending' = e
    /\ thrown' = [node |-> cur, error |-> e]
    /\ pc' = "finally"
    /\ UNCHANGED <<runner, allNodes, stepList, mode, clear, cur, handles,
                   groupStartTimes, completedLeaves, results, previousResult,
                   stepStart, ctx, work, gen, outcome, invoked, settled, nEvents>>

ExecReturn ==
    /\ mode = "execute"
    /\ pc = "body"
    /\ LET handle == handles[stepList[cur].title]
           w1 == IF work.variant = "value"
                 THEN TaskHandle_start(Begin(mp), handle)
                 ELSE Begin(mp)
       IN stepResolved(TaskHandle_complete(w1, handle, NoArg),
                       Apply(work.fn, work.args))
    /\ act' = Act("return", NoId)

ExecThrow ==
    /\ mode = "execute"
    /\ pc = "body"
    /\ stepFailed(ErrorOf(cur))
    /\ act' = Act("throw", NoId)

\* processYield: P = [w, state].
processYield(value, P, t) ==
    CASE value.k = "declare" ->
           LET RECURSIVE declareAll(_, _)
               declareAll(Q, labels) ==
                   IF labels = <<>> THEN Q
                   ELSE LET id == NextTaskId(Q.w)
                            w1 == MultiProgress_add(Q.w, Title(Head(labels)),
                                      AddOpts("spinner", 0, 1, Q.state.lastInsertId))
                        IN declareAll(
                             [w |-> w1,
                              state |-> [Q.state EXCEPT
                                  !.lastInsertId = id,
                                  !.declaredSteps = (Head(labels) :> id) @@ @]],
                             Tail(labels))
           IN declareAll(P, value.labels)
      [] value.k = "label" ->
           LET w1 == IF P.state.currentHandle # NoId /\ P.state.currentLabel # ""
                     THEN TaskHandle_complete(P.w, P.state.currentHandle,
                              TimeArg(t - P.state.subStepStartTime))
                     ELSE P.w
               st1 == [P.state EXCEPT !.currentLabel = value.label,
                                      !.subStepStartTime = t]
           IN IF value.label \in DOMAIN st1.declaredSteps
              THEN LET declared == st1.declaredSteps[value.label]
                   IN [w |-> TaskHandle_start(w1, declared),
                       state |-> [st1 EXCEPT !.currentHandle = declared]]
              ELSE LET id == NextTaskId(w1)
                       w2 == MultiProgress_add(w1, Title(value.label),
                                 AddOpts("spinner", 0, 1, st1.lastInsertId))
                   IN [w |-> TaskHandle_start(w2, id),
                       state |-> [st1 EXCEPT !.currentHandle = id,
                                             !.lastInsertId = id]]
      [] value.k = "progress" ->
           IF P.state.currentHandle # NoId /\ value.total > 0
           THEN [P EXCEPT !.w = TaskHandle_setTitle(P.w, P.state.currentHandle,
                     TitleProg(P.state.currentLabel, value.current, value.total))]
           ELSE P

ExecGenYield(value) ==
    /\ mode = "execute"
    /\ pc = "gen"
    /\ nEvents < MaxEvents
    /\ LET P == processYield(value, [w |-> Begin(mp), state |-> gen], now)
       IN mp' = P.w /\ gen' = P.state
    /\ pc' = "genwait"
    /\ nEvents' = nEvents + 1
    /\ act' = Act("yield", NoId)
    /\ UNCHANGED <<runner, allNodes, stepList, mode, clear, cur, handles,
                   groupStartTimes, completedLeaves, results, previousResult,
                   stepStart, ctx, work, pending, outcome, invoked, settled, thrown>>

\* "Complete final sub-step", "Complete parent step".
ExecGenReturn ==
    /\ mode = "execute"
    /\ pc = "gen"
    /\ LET w1 == IF gen.currentHandle # NoId /\ gen.currentLabel # ""
                 THEN TaskHandle_complete(Begin(mp), gen.currentHandle,
                          TimeArg(now - gen.subStepStartTime))
                 ELSE Begin(mp)
       IN stepResolved(TaskHandle_complete(w1, handles[stepList[cur].title],
                                           TimeArg(now - gen.startTime)),
                       Apply(work.fn, work.args))
    /\ act' = Act("return", NoId)

ExecGenThrow ==
    /\ mode = "execute"
    /\ pc = "gen"
    /\ stepFailed(ErrorOf(cur))
    /\ act' = Act("throw", NoId)

Next ==
    \/ Tick
    \/ \E m \in {"run", "pipe"} : Begin_run(m)
    \/ LoopStep
    \/ \E v \in Variants : Invoke(v)
    \/ \E l \in Labels : CtxSub(l)
    \/ CtxProgress(1, 2)
    \/ StepOutside
    \/ StepInGenerator
    \/ GenCtxSub("A")
    \/ Return
    \/ Throw
    \/ \E y \in Yields : GenYield(y)
    \/ GenResume
    \/ GenReturn
    \/ GenThrow
    \/ \E c \in BOOLEAN : Finally(c)
    \/ Begin_execute
    \/ ExecNext
    \/ \E v \in Variants : ExecInvoke(v)
    \/ ExecReturn
    \/ ExecThrow
    \/ \E y \in Yields : ExecGenYield(y)
    \/ ExecGenReturn
    \/ ExecGenThrow

Spec == Init /\ [][Next]_vars


(***************************************************************************)
(* The MultiProgress API called directly, on an instance of its own.       *)
(***************************************************************************)
InitMP ==
    /\ \E tty \in BOOLEAN : mp = NewMultiProgress(tty)
    /\ InitEngine("none", <<>>, <<>>)

apiCall(w, op, id) ==
    /\ runner = "none"
    /\ nEvents < MaxCalls
    /\ mp' = w
    /\ nEvents' = nEvents + 1
    /\ act' = Act(op, id)
    /\ UNCHANGED engineVars

TaskIds == 1..Len(mp.tasks)

API_add(type, total, indent, insertAfter) ==
    /\ Len(mp.tasks) < MaxTasks
    /\ apiCall(MultiProgress_add(Begin(mp), Title("T"),
                                 AddOpts(type, total, indent, insertAfter)),
               "add", insertAfter)

API_start == apiCall(MultiProgress_start(Begin(mp)), "start", NoId)

\* stop(c): `clear' keeps the argument of the call.
API_stop(c) ==
    /\ runner = "none"
    /\ nEvents < MaxCalls
    /\ mp' = MultiProgress_stop(Begin(mp), c)
    /\ clear' = c
    /\ nEvents' = nEvents + 1
    /\ act' = Act("stop", NoId)
    /\ UNCHANGED <<runner, allNodes, stepList, mode, pc, cur, handles,
                   groupStartTimes, completedLeaves, results, previousResult,
                   stepStart, ctx, work, gen, pending, outcome, invoked,
                   settled, thrown>>

Handle_start(id) == apiCall(TaskHandle_start(Begin(mp), id), "h.start", id)

Handle_update(id, n) == apiCall(TaskHandle_update(Begin(mp), id, n), "h.update", id)

Handle_complete(id, a) == apiCall(TaskHandle_complete(Begin(mp), id, a), "h.complete", id)

Handle_fail(id, a) == apiCall(TaskHandle_fail(Begin(mp), id, a), "h.fail", id)

Handle_skip(id, a) == apiCall(TaskHandle_skip(Begin(mp), id, a), "h.skip", id)

Handle_setTitle(id, t) == apiCall(TaskHandle_setTitle(Begin(mp), id, t), "h.setTitle", id)

Handle_setType(id, type) == apiCall(TaskHandle_setType(Begin(mp), id, type), "h.setType", id)

NextMP ==
    \/ Tick
    \/ \E o \in {<<"spinner", 0, 0>>, <<"bar", 4, 1>>} :
         \E ia \in TaskIds \cup {NoId, UnknownId} :
            API_add(o[1], o[2], o[3], ia)
    \/ API_start
    \/ \E c \in BOOLEAN : API_stop(c)
    \/ \E id \in TaskIds : Handle_start(id)
    \/ \E id \in TaskIds : Handle_update(id, 2)
    \/ \E id \in TaskIds : \E a \in {TimeArg(5), TitleArg(Title("U"))} :
         Handle_complete(id, a)
    \/ \E id \in TaskIds : Handle_fail(id, NoArg)
    \/ \E id \in TaskIds : Handle_skip(id, TitleArg(Title("U")))
    \/ \E id \in TaskIds : Handle_setTitle(id, Title("U"))
    \/ \E id \in TaskIds : Handle_setType(id, "group")

SpecMP == InitMP /\ [][NextMP]_vars


(***************************************************************************)
(* Properties.                                                             *)
(***************************************************************************)
statusOf(id) == mp.tasks[id].status
Declarative == mode \in {"run", "pipe"}
\* The leaves of the declaration, in flattened order.
LeafOrder == SeqOfSet({j \in 1..Len(allNodes) : hasWork(allNodes[j])})
GroupSet == {g \in 1..Len(allNodes) : allNodes[g].hasChildren}
InvokedNodes == {invoked[i].node : i \in 1..Len(invoked)}

\* C1: run() and pipe() invoke the work items in the flattened, depth-first
\* declaration order, each once, and never invoke a leaf before the leaf
\* invoked before it has resolved.
C1_SequentialOrder ==
    Declarative =>
        /\ Len(invoked) <= Len(LeafOrder)
        /\ \A i \in 1..Len(invoked) : invoked[i].node = LeafOrder[i]
        /\ Len(settled) <= Len(invoked)
        /\ Len(invoked) <= Len(settled) + 1
        /\ \A i \in 1..Len(settled) : settled[i].node = invoked[i].node

C1_Witness ==
    /\ mode = "pipe"
    /\ allNodes[1].hasChildren
    /\ Len(invoked) = 3
    /\ Len(settled) = 2

\* C2: a successful run() returns a mapping with exactly one entry per leaf,
\* keyed by the leaf's declared key, whose value is what that leaf resolved to.
C2_OneEntryPerLeaf ==
    (mode = "run" /\ outcome.kind = "returned") =>
        /\ Cardinality(DOMAIN outcome.value) = Len(LeafOrder)
        /\ DOMAIN outcome.value = {allNodes[LeafOrder[i]].key : i \in 1..Len(LeafOrder)}
        /\ \A i \in 1..Len(settled) :
              outcome.value[allNodes[settled[i].node].key] = settled[i].value

\* C3 as stated: in a successful pipe() the first work item is invoked with
\* no argument, every later one with exactly the value the leaf before it
\* resolved to as its sole argument, and pipe() returns the last value.
C3_SoleArgument ==
    (mode = "pipe" /\ outcome.kind = "returned") =>
        /\ \A i \in 1..Len(invoked) :
              invoked[i].args = IF i = 1 THEN <<>> ELSE <<settled[i - 1].value>>
        /\ outcome.value = settled[Len(settled)].value

\* C3 amended: the same, except that a leaf following one that resolved to
\* undefined is invoked with no argument.
C3_ArgumentUnlessUndefined ==
    (mode = "pipe" /\ outcome.kind = "returned") =>
        /\ Len(invoked) = Len(LeafOrder) /\ Len(settled) = Len(LeafOrder)
        /\ \A i \in 1..Len(invoked) :
              invoked[i].args =
                  IF i = 1 \/ settled[i - 1].value.t = "undefined"
                  THEN <<>>
                  ELSE <<settled[i - 1].value>>
        /\ outcome.value = settled[Len(settled)].value

C3_Witness ==
    /\ mode = "pipe"
    /\ outcome.kind = "returned"
    /\ outcome.value = Num(25)
    /\ invoked[3].args = <<Num(20)>>

\* C4: when run() or pipe() rejects because a leaf raised, that leaf's record
\* is failed, no other record is failed, every leaf not yet started is still
\* pending, and the caller gets the error the leaf raised.
C4_OnlyTheLeafFails ==
    (Declarative /\ outcome.kind = "rejected") =>
        /\ thrown.node \in InvokedNodes
        /\ statusOf(handles[thrown.node]) = "failed"
        /\ \A id \in 1..Len(mp.tasks) :
              id # handles[thrown.node] => statusOf(id) # "failed"
        /\ \A i \in 1..Len(LeafOrder) :
              LeafOrder[i] \notin InvokedNodes => statusOf(handles[LeafOrder[i]]) = "pending"
        /\ outcome.error = thrown.error
        /\ thrown.error = ErrorOf(thrown.node)

C4_Witness ==
    /\ mode = "run"
    /\ outcome.kind = "rejected"
    /\ thrown.node = LeafOrder[2]
    /\ Len(LeafOrder) = 3
    /\ Len(mp.tasks) > Len(allNodes)

\* C5: once a leaf has failed in run(), pipe() or execute(), no later work
\* item is invoked and the caller is given no result, partial or whole.
C5_NothingAfterFailure ==
    thrown.node # 0 =>
        /\ invoked[Len(invoked)].node = thrown.node
        /\ Len(settled) = Len(invoked) - 1
        /\ outcome.kind # "returned"
        /\ outcome.kind = "rejected" => outcome.value = Undefined

C5_Witness ==
    /\ mode = "execute"
    /\ outcome.kind = "rejected"
    /\ thrown.node = 1
    /\ Len(stepList) = 2

\* C6: when run(), pipe() or execute() has returned or raised, the
\* MultiProgress it created is stopped: inactive, its timer cleared, and the
\* cursor it hid shown again.
C6_StoppedOnExit ==
    outcome.kind # "none" =>
        /\ ~mp.isActive
        /\ mp.timer = NoId
        /\ mp.timers = {}
        /\ ~mp.hidden

C6_Witness ==
    /\ outcome.kind = "rejected"
    /\ mp.tty
    /\ mp.timersMade = 1
    /\ mode = "pipe"

\* C7: a group's record is completed only if every leaf under it has
\* completed, and it is completed in the very step that records the
\* completion of its last leaf, before the next leaf is started.
C7_GroupCompletion ==
    Declarative =>
        \A g \in GroupSet :
            /\ statusOf(handles[g]) = "completed" =>
                  \A l \in groupLeaves(allNodes, g) :
                      l \in completedLeaves /\ statusOf(handles[l]) = "completed"
            /\ (groupLeaves(allNodes, g) # {}
                /\ groupLeaves(allNodes, g) \subseteq completedLeaves) =>
                  statusOf(handles[g]) = "completed"

C7_Witness ==
    /\ Declarative
    /\ pc = "enter"
    /\ \E g \in GroupSet : /\ statusOf(handles[g]) = "completed"
                           /\ Cardinality(groupLeaves(allNodes, g)) = 2
    /\ statusOf(handles[cur]) = "pending"

\* C8: in run() and pipe() the registration phase comes first: when it ends,
\* before any work item is invoked, every node has a record, pending, of
\* type group for a group and spinner for a leaf, in flattened order; and
\* no work item is invoked before that.
C8_RegisteredFirst ==
    Declarative =>
        /\ Len(handles) = Len(allNodes)
        /\ \A i \in 1..Len(allNodes) : handles[i] = i
        /\ SubSeq(mp.taskOrder, 1, Len(allNodes)) = handles \/ invoked # <<>>
        /\ pc = "started" =>
              /\ invoked = <<>>
              /\ mp.taskOrder = handles
              /\ \A i \in 1..Len(allNodes) :
                    /\ statusOf(handles[i]) = "pending"
                    /\ mp.tasks[handles[i]].title = Title(allNodes[i].label)
                    /\ mp.tasks[handles[i]].type =
                          IF allNodes[i].hasChildren THEN "group" ELSE "spinner"
        /\ invoked = <<>> =>
              \A i \in 1..Len(allNodes) :
                  hasWork(allNodes[i]) => statusOf(handles[i]) = "pending"

C8_Witness ==
    /\ mode = "run"
    /\ pc = "started"
    /\ Len(allNodes) = 5
    /\ mp.tty

\* C9: add() with insertAfter naming a record of the list puts the new
\* record right after it; with insertAfter absent or naming no record, at
\* the end; either way the records already there keep their order.
C9_InsertAfter ==
    [][act'.op = "add" =>
          LET old == mp.taskOrder
              new == mp'.taskOrder
              id == Len(mp'.tasks)
              at == indexOf(new, id)
          IN /\ Len(mp'.tasks) = Len(mp.tasks) + 1
             /\ Len(new) = Len(old) + 1
             /\ at >= 1
             /\ SubSeq(new, 1, at - 1) \o SubSeq(new, at + 1, Len(new)) = old
             /\ IF \E i \in 1..Len(old) : old[i] = act'.id
                THEN at >= 2 /\ new[at - 1] = act'.id
                ELSE at = Len(new)]_vars

C9_Witness ==
    /\ runner = "none"
    /\ act.op = "add"
    /\ Len(mp.taskOrder) = 3
    /\ mp.taskOrder[1] = act.id
    /\ mp.taskOrder[2] = 3

\* C10: start() right after start(), or on any started MultiProgress, and
\* stop() right after stop(), or on any stopped one, change nothing: flag,
\* timer, records and terminal stay as they are, nothing is written and no
\* timer is created or cleared.
C10_Idempotent ==
    [][(\/ act'.op = "start" /\ (act.op = "start" \/ mp.isActive)
        \/ act'.op = "stop" /\ (act.op = "stop" \/ ~mp.isActive))
       => mp' = Begin(mp)]_vars

C10_Witness ==
    /\ runner = "none"
    /\ act.op = "stop"
    /\ act.prev = "stop"
    /\ mp.tty
    /\ mp.timersMade = 1
    /\ Len(mp.tasks) = 1

\* The rows of the terminal that hold a line of this instance, and the
\* frame render() draws for the records as they are.
Drawn(w) == {r \in DOMAIN w.screen : w.screen[r] # NoLine}
FinalFrame(w) == [i \in 1..Len(w.taskOrder) |-> renderLine(w, w.taskOrder[i])]

\* C11: on a TTY, a stop() that ends the instance's start() .. stop() span
\* leaves, with clear = true, every row the instance drew blank and the
\* cursor on the first row of the region; with clear = false, exactly one
\* row per record, in list order, showing the record's final state, and the
\* cursor below them.
C11_StopLeavesScreen ==
    [][(act'.op = "stop" /\ mp.isActive /\ mp.tty /\ mp.timersMade = 1) =>
          LET n == Len(mp'.taskOrder)
          IN IF clear'
             THEN /\ Drawn(mp') = {}
                  /\ DOMAIN mp'.screen = 1..n
                  /\ mp'.row = 1
             ELSE /\ Drawn(mp') = 1..n
                  /\ DOMAIN mp'.screen = 1..n
                  /\ \A i \in 1..n : mp'.screen[i] = FinalFrame(mp')[i]
                  /\ mp'.row > n]_vars

C11_Witness ==
    /\ runner = "none"
    /\ act.op = "stop"
    /\ act.prev = "add"
    /\ clear
    /\ mp.tty
    /\ mp.timersMade = 1
    /\ ~mp.isActive
    /\ DOMAIN mp.screen = 1..2
    /\ mp.renderedLines = 2

\* C12: step(), step().progress and step().sub called by code that runs
\* in no work item never throw, give a context whose label is "", and
\* leave the MultiProgress - every record, the order, the stream - as it was.
C12_NoOpOutside ==
    [][act'.op = "step.outside" =>
          /\ act'.label = ""
          /\ mp' = Begin(mp)
          /\ ctx' = ctx
          /\ pending' = pending /\ outcome' = outcome /\ pc' = pc]_vars

C12_Witness ==
    /\ act.op = "step.outside"
    /\ act.label = ""
    /\ pc = "enter"
    /\ Len(settled) = 1
    /\ mp.isActive /\ mp.tty
    /\ Len(mp.tasks) > Len(allNodes)

\* C13: under run() and pipe(), step() called by the executing work item -
\* a plain function, an async function, or the body of a generator - gives
\* the context of that leaf, whose label is the leaf's label; called by any
\* other code it gives the no-op context.
C13_ContextInWorkItem ==
    /\ act.op \in {"sub", "progress", "step.gen"} => act.label = allNodes[cur].label
    /\ act.op = "step.outside" => act.label = ""

\* The records of the sub-steps of the leaf at position l: those that lie
\* between the leaf's record and the next record of a declared node.
Block(w, l) ==
    LET at == indexOf(w.taskOrder, handles[l])
    IN {w.taskOrder[i] : i \in {j \in (at + 1)..Len(w.taskOrder) :
            \A k \in (at + 1)..j : w.taskOrder[k] > Len(allNodes)}}

\* C14: every record a running leaf spawns - by step().sub, a yielded label
\* or a yielded batch declaration - is put right after the sub-step record
\* of that leaf inserted last before it, or right after the leaf's own
\* record when it is the leaf's first.
C14_InsertedAfterLast ==
    [][(Declarative /\ pc \in {"body", "gen"}) =>
          \A k \in (Len(mp.tasks) + 1)..Len(mp'.tasks) :
              indexOf(mp'.taskOrder, k) =
                  indexOf(mp'.taskOrder,
                          IF k - 1 \in Block(mp', cur) THEN k - 1 ELSE handles[cur]) + 1]_vars

\* C15: sub(label) on the context of an executing leaf completes the
\* sub-step that was open, if any, and leaves a sub-step named label open
\* and running: the record declared upfront for that label if there is one,
\* and then no record is added, otherwise a new record.
C15_SubReusesDeclared ==
    [][act'.op \in {"sub", "gen.sub"} =>
          LET l == ctx'.currentSubLabel
              h == ctx'.currentSubHandle
          IN /\ ctx.currentSubHandle # NoId =>
                    mp'.tasks[ctx.currentSubHandle].status = "completed"
             /\ h # NoId
             /\ mp'.tasks[h].status = "running"
             /\ mp'.tasks[h].title = Title(l)
             /\ IF l \in DOMAIN ctx.declaredHandles
                THEN /\ Len(mp'.tasks) = Len(mp.tasks)
                     /\ h = ctx.declaredHandles[l]
                ELSE /\ Len(mp'.tasks) = Len(mp.tasks) + 1
                     /\ h = Len(mp'.tasks)]_vars

\* The sub-step records of the running leaf that show as running.
RunningSubs(w) == {id \in Block(w, cur) : w.tasks[id].status = "running"}

\* C16: when run() / pipe() process a label a generator yields, the
\* sub-step that was open before is completed afterwards, and the sub-step
\* the label names is the open one, running - reused if it was declared,
\* newly created if not.
C16_LabelOpensNamed ==
    [][(Declarative /\ act'.op = "yield.label") =>
          /\ \A id \in RunningSubs(mp) :
                mp.tasks[id].title.text # act'.label =>
                    mp'.tasks[id].status = "completed"
          /\ ctx'.currentSubLabel = act'.label
          /\ ctx'.currentSubHandle \in RunningSubs(mp')
          /\ mp'.tasks[ctx'.currentSubHandle].title.text = act'.label
          /\ IF act'.label \in DOMAIN ctx.declaredHandles
             THEN /\ Len(mp'.tasks) = Len(mp.tasks)
                  /\ ctx'.currentSubHandle = ctx.declaredHandles[act'.label]
             ELSE /\ Len(mp'.tasks) = Len(mp.tasks) + 1
                  /\ ctx'.currentSubHandle = Len(mp'.tasks)]_vars

\* C17: when a generator is exhausted under run() / pipe(), the leaf's
\* record becomes completed and no sub-step record of that leaf is left
\* running.
C17_ExhaustionCompletesSubs ==
    [][(Declarative /\ pc = "gen" /\ act'.op = "return") =>
          /\ mp'.tasks[handles[cur]].status = "completed"
          /\ RunningSubs(mp') = {}]_vars

\* C18: a progress update (1, 2) a generator yields while a sub-step of the
\* leaf is open gives that sub-step's record the title `<label> (1/2)' and
\* leaves the title of the leaf's own record as it was.
C18_ProgressOnOpenSub ==
    [][(Declarative /\ act'.op = "yield.progress" /\ RunningSubs(mp) # {}) =>
          /\ \A id \in RunningSubs(mp) :
                mp'.tasks[id].title = TitleProg(mp.tasks[id].title.text, 1, 2)
          /\ mp'.tasks[handles[cur]].title = mp.tasks[handles[cur]].title]_vars

\* The lines the last operation wrote, and the row of a record's line.
LinesWritten == {mp.wrote[i].line : i \in {j \in 1..Len(mp.wrote) : mp.wrote[j].op = "line"}}
RowOf(id) == indexOf(mp.taskOrder, id)

\* C19: on a TTY, the step in which a leaf fails under run() / pipe() itself
\* draws a frame that shows the leaf's record with the failed glyph, and
\* with clear = false the frame left on screen when the call has rejected
\* shows it so too.
C19_FailureIsDrawn ==
    Declarative /\ mp.tty =>
        /\ act.op = "throw" =>
              /\ renderLine(mp, handles[cur]).icon = STATUS_ICONS("failed")
              /\ renderLine(mp, handles[cur]) \in LinesWritten
              /\ mp.screen[RowOf(handles[cur])] = renderLine(mp, handles[cur])
        /\ (outcome.kind = "rejected" /\ ~clear) =>
              /\ mp.screen[RowOf(handles[thrown.node])].icon = STATUS_ICONS("failed")
              /\ mp.screen[RowOf(handles[thrown.node])] =
                    renderLine(mp, handles[thrown.node])

C19_Witness ==
    /\ mode = "run"
    /\ mp.tty
    /\ outcome.kind = "rejected"
    /\ ~clear
    /\ mp.frameIndex = 0
    /\ thrown.node = LeafOrder[2]
    /\ mp.screen[RowOf(handles[thrown.node])].icon = STATUS_ICONS("failed")

\* C20: when execute() raises because a step's work item threw, rejected or
\* its generator threw, that step's record is failed and the error raised
\* is the step's.
C20_FluentMarksFailed ==
    (mode = "execute" /\ outcome.kind = "rejected") =>
        /\ statusOf(handles[stepList[thrown.node].title]) = "failed"
        /\ outcome.error = thrown.error

\* The record of the step execute() is at.
stepHandle == handles[stepList[cur].title]

\* C21: execute() takes a step's record through the statuses and types
\* run() takes a leaf's record through: while the work item has been invoked
\* and has not resolved the record is running, and from the first sub-step
\* event on - a batch declaration or a label, which adds the step's first
\* sub-step record - its type is group.
C21_LegacySameLifecycle ==
    (mode = "execute" /\ pc \in {"body", "gen", "genwait"}) =>
        /\ mp.tasks[stepHandle].status = "running"
        /\ gen.lastInsertId # stepHandle => mp.tasks[stepHandle].type = "group"

\* The records other than id, and the list, as a handle operation must
\* leave them.
Others(w, id) == [i \in DOMAIN w.tasks \ {id} |-> w.tasks[i]]
HandleOps == {"h.start", "h.update", "h.complete", "h.fail", "h.skip", "h.setTitle", "h.setType"}

\* C22: a TaskHandle operation changes its own record and nothing else:
\* start() makes its status running, complete() completed, fail() failed,
\* skip() skipped, update(n) makes current n, setTitle(t) makes the title t;
\* every other record, the number of records and the order of the list stay
\* as they were.
C22_OnlyOwnRecord ==
    [][act'.op \in HandleOps =>
          LET id == act'.id
              old == mp.tasks[id]
              new == mp'.tasks[id]
          IN /\ Others(mp', id) = Others(mp, id)
             /\ DOMAIN mp'.tasks = DOMAIN mp.tasks
             /\ mp'.taskOrder = mp.taskOrder
             /\ new.id = old.id /\ new.indent = old.indent /\ new.total = old.total
             /\ act'.op = "h.start" => new.status = "running"
             /\ act'.op = "h.complete" => new.status = "completed"
             /\ act'.op = "h.fail" => new.status = "failed"
             /\ act'.op = "h.skip" => new.status = "skipped"
             /\ act'.op = "h.update" => new.current = 2 /\ new.status = old.status
             /\ act'.op = "h.setTitle" =>
                   new.title = Title("U") /\ new.status = old.status
             /\ act'.op = "h.setType" => new.status = old.status
             /\ act'.op # "h.setType" => new.type = old.type
             /\ act'.op # "h.update" => new.current = old.current]_vars

C22_Witness ==
    /\ runner = "none"
    /\ act.op = "h.fail"
    /\ act.id = 1
    /\ Len(mp.tasks) = 2
    /\ mp.isActive /\ mp.tty
    /\ mp.tasks[1].status = "failed"
    /\ mp.tasks[2].status = "pending"
    /\ mp.taskOrder = <<1, 2>>

\* What the MultiProgress holds apart from its stream: the records, their
\* order, the flag and the animation state.
Records(w) ==
    [taskOrder |-> w.taskOrder, tasks |-> w.tasks, isActive |-> w.isActive,
     frameIndex |-> w.frameIndex, timer |-> w.timer, timers |-> w.timers]

\* The instance with the same records on a stream that is not a TTY.
Plain(w) ==
    [w EXCEPT !.tty = FALSE, !.hidden = FALSE, !.wrote = <<>>, !.screen = <<>>,
              !.row = 1, !.renderedLines = 0]

\* C23: whatever operation comes next, it leaves the same records - order,
\* status, title, type, current - on a stream that is a TTY as on one that
\* is not; and on a stream that is not a TTY no operation writes a frame
\* line, a cursor movement or a cursor hide / show, and no frame is counted.
C23_SameOnAnyStream ==
    /\ ~mp.tty =>
          /\ \A i \in 1..Len(mp.wrote) : mp.wrote[i].op = "nl"
          /\ mp.screen = <<>>
          /\ ~mp.hidden
          /\ mp.renderedLines = 0
    /\ (runner = "none" /\ mp.tty) =>
          LET w == Begin(mp)
              p == Plain(w)
              ids == 1..Len(mp.tasks)
          IN /\ Records(p) = Records(w)
             /\ \A o \in {<<"spinner", 0, 0>>, <<"bar", 4, 1>>} :
                  \A ia \in ids \cup {NoId, UnknownId} :
                     Records(MultiProgress_add(p, Title("T"), AddOpts(o[1], o[2], o[3], ia)))
                       = Records(MultiProgress_add(w, Title("T"), AddOpts(o[1], o[2], o[3], ia)))
             /\ Records(MultiProgress_start(p)) = Records(MultiProgress_start(w))
             /\ \A c \in BOOLEAN :
                  Records(MultiProgress_stop(p, c)) = Records(MultiProgress_stop(w, c))
             /\ Records(MultiProgress_tick(p)) = Records(MultiProgress_tick(w))
             /\ \A id \in ids :
                  /\ Records(TaskHandle_start(p, id)) = Records(TaskHandle_start(w, id))
                  /\ Records(TaskHandle_update(p, id, 2)) = Records(TaskHandle_update(w, id, 2))
                  /\ \A a \in {TimeArg(5), TitleArg(Title("U"))} :
                        Records(TaskHandle_complete(p, id, a))
                          = Records(TaskHandle_complete(w, id, a))
                  /\ Records(TaskHandle_fail(p, id, NoArg)) = Records(TaskHandle_fail(w, id, NoArg))
                  /\ Records(TaskHandle_skip(p, id, TitleArg(Title("U"))))
                       = Records(TaskHandle_skip(w, id, TitleArg(Title("U"))))
                  /\ Records(TaskHandle_setTitle(p, id, Title("U")))
                       = Records(TaskHandle_setTitle(w, id, Title("U")))
                  /\ Records(TaskHandle_setType(p, id, "group"))
                       = Records(TaskHandle_setType(w, id, "group"))

C23_Witness ==
    /\ runner = "none"
    /\ ~mp.tty
    /\ act.op = "stop"
    /\ act.prev = "h.complete"
    /\ mp.timersMade = 1
    /\ ~mp.isActive
    /\ Len(mp.tasks) = 1
    /\ mp.tasks[1].status = "completed"
    /\ mp.wrote = <<NEWLINE>>

\* The first leaf under a group, in flattened order (0: the group has none).
firstLeaf(g) ==
    IF groupLeaves(allNodes, g) = {} THEN 0
    ELSE CHOOSE l \in groupLeaves(allNodes, g) : \A m \in groupLeaves(allNodes, g) : l <= m

\* C24: in run() and pipe() a group's record has left pending only if the
\* loop has turned to the group's first leaf, every leaf before that one
\* being completed; it is running when that first leaf is about to start;
\* and whenever a leaf's record is running, the record of every group the
\* leaf lies under is running.
C24_GroupRunsWithFirstLeaf ==
    Declarative =>
        \A g \in GroupSet :
            /\ statusOf(handles[g]) # "pending" =>
                  /\ firstLeaf(g) # 0
                  /\ firstLeaf(g) <= cur
                  /\ \A l \in 1..(firstLeaf(g) - 1) :
                        hasWork(allNodes[l]) =>
                            l \in completedLeaves /\ statusOf(handles[l]) = "completed"
            /\ (pc = "enter" /\ cur = firstLeaf(g)) => statusOf(handles[g]) = "running"
            /\ \A l \in groupLeaves(allNodes, g) :
                  statusOf(handles[l]) = "running" => statusOf(handles[g]) = "running"

C24_Witness ==
    /\ Declarative
    /\ Len(allNodes) = 5
    /\ cur = 4
    /\ pc = "body"
    /\ statusOf(handles[4]) = "running"
    /\ statusOf(handles[1]) = "running"
    /\ statusOf(handles[2]) = "completed"
    /\ statusOf(handles[5]) = "pending"

SettledNodes == {settled[i].node : i \in 1..Len(settled)}

\* C25: in run() and pipe() the record of the leaf whose work item has been
\* invoked is running from the invocation on, at every moment until the
\* work item has resolved or raised; a leaf's record is completed only once
\* the work item's result is there, and pending until it is invoked.
C25_RunningUntilSettled ==
    Declarative =>
        /\ pc \in {"body", "gen", "genwait"} =>
              /\ cur \in InvokedNodes
              /\ cur \notin SettledNodes
              /\ statusOf(handles[cur]) = "running"
        /\ \A l \in 1..Len(allNodes) :
              hasWork(allNodes[l]) =>
                  /\ statusOf(handles[l]) = "completed" <=> l \in SettledNodes
                  /\ statusOf(handles[l]) = "pending" <=> l \notin InvokedNodes
                  /\ statusOf(handles[l]) = "running" =>
                        l = cur /\ pc \in {"body", "gen", "genwait"}

C25_Witness ==
    /\ mode = "run"
    /\ pc = "genwait"
    /\ work.variant = "gen"
    /\ act.op = "tick"
    /\ mp.frameIndex = 1
    /\ Len(settled) = 1
    /\ statusOf(handles[cur]) = "running"
    /\ Len(mp.tasks) > Len(allNodes)

\* A label event whose label has no declared record: it adds record k.
UndeclaredLabel ==
    /\ Declarative
    /\ act'.op = "yield.label"
    /\ act'.label \notin DOMAIN ctx.declaredHandles

\* C26 as stated: the record a label event creates for an undeclared label
\* is put right after the record of the sub-step that was opened last
\* before the event, or right after the leaf's own record if none was opened.
C26_AfterLastOpened ==
    [][UndeclaredLabel =>
          LET k == Len(mp'.tasks)
          IN /\ k = Len(mp.tasks) + 1
             /\ indexOf(mp'.taskOrder, k) =
                   indexOf(mp'.taskOrder,
                           IF act.opened # NoId THEN act.opened ELSE handles[cur]) + 1]_vars

\* C26 amended: the record is put right after the record that a label or a
\* batch declaration of this leaf created last before the event, opened or
\* not, or right after the leaf's own record if no event created one.
C26_AfterLastInserted ==
    [][UndeclaredLabel =>
          LET k == Len(mp'.tasks)
          IN /\ k = Len(mp.tasks) + 1
             /\ mp'.tasks[k].title = Title(act'.label)
             /\ gen.lastInsertedId \in {handles[cur]} \cup Block(mp, cur)
             /\ indexOf(mp'.taskOrder, k) = indexOf(mp'.taskOrder, gen.lastInsertedId) + 1
             /\ gen'.lastInsertedId = k]_vars

C26_Witness ==
    /\ Declarative
    /\ act.op = "yield.label"
    /\ act.label = "C"
    /\ cur = 1
    /\ mp.taskOrder = <<1, 4, 5, 6, 2, 3>>
    /\ mp.tasks[5].title = Title("B")
    /\ mp.tasks[5].status = "pending"
    /\ mp.tasks[6].title = Title("C")
    /\ act.opened = 6

\* C27: a batch declaration with the labels A, B adds exactly two records,
\* titled A and B, pending, one level deeper than the leaf, in this order
\* right behind one another inside the leaf's block, and starts no record; a
\* later label event that names a declared label starts the record declared
\* for it and adds none.
C27_DeclareThenReuse ==
    [][/\ (Declarative /\ act'.op = "yield.declare") =>
             LET n == Len(mp.tasks)
                 at == indexOf(mp'.taskOrder, n + 1)
             IN /\ Len(mp'.tasks) = n + 2
                /\ mp'.tasks[n + 1].title = Title("A")
                /\ mp'.tasks[n + 2].title = Title("B")
                /\ \A k \in {n + 1, n + 2} :
                      /\ mp'.tasks[k].status = "pending"
                      /\ mp'.tasks[k].indent = allNodes[cur].indent + 1
                      /\ k \in Block(mp', cur)
                /\ at >= 1 /\ mp'.taskOrder[at + 1] = n + 2
                /\ \A k \in 1..n : mp'.tasks[k].status = mp.tasks[k].status
                /\ ctx'.declaredHandles["A"] = n + 1
                /\ ctx'.declaredHandles["B"] = n + 2
       /\ (Declarative /\ act'.op = "yield.label"
           /\ act'.label \in DOMAIN ctx.declaredHandles) =>
             LET h == ctx.declaredHandles[act'.label]
             IN /\ Len(mp'.tasks) = Len(mp.tasks)
                /\ mp'.taskOrder = mp.taskOrder
                /\ mp'.tasks[h].status = "running"
                /\ mp'.tasks[h].title = Title(act'.label)
                /\ ctx'.currentSubHandle = h]_vars

C27_Witness ==
    /\ Declarative
    /\ act.op = "yield.label"
    /\ act.label = "A"
    /\ cur = 3
    /\ Len(allNodes) = 5
    /\ mp.taskOrder = <<1, 2, 3, 6, 7, 4, 5>>
    /\ mp.tasks[6].status = "running"
    /\ mp.tasks[7].status = "pending"
    /\ mp.tasks[6].indent = 3

\* A record with its type left out.
Untyped(task) == [f \in DOMAIN task \ {"type"} |-> task[f]]

\* C28: under run() / pipe() the record of a leaf that runs a generator is
\* of type group exactly if a batch declaration or a label of that leaf has
\* been processed; progress updates leave it a spinner.  The type of a
\* leaf's record changes only by the leaf's first such event, from spinner
\* to group, and that step changes no other field of the record.
C28_GroupIffSubStepEvent ==
    [][Declarative =>
          /\ \A l \in 1..Len(allNodes) :
                (hasWork(allNodes[l]) /\ mp'.tasks[handles[l]].type # mp.tasks[handles[l]].type) =>
                    /\ l = cur
                    /\ act'.op \in {"yield.label", "yield.declare"}
                    /\ ~gen.hasSubSteps
                    /\ mp.tasks[handles[l]].type = "spinner"
                    /\ mp'.tasks[handles[l]].type = "group"
                    /\ Untyped(mp'.tasks[handles[l]]) = Untyped(mp.tasks[handles[l]])
          /\ act'.op \in {"yield.label", "yield.declare"} => gen'.hasSubSteps
          /\ act'.op = "yield.progress" => gen'.hasSubSteps = gen.hasSubSteps
          /\ pc' \in {"gen", "genwait"} =>
                (mp'.tasks[handles[cur']].type = "group" <=> gen'.hasSubSteps)]_vars

C28_Witness ==
    /\ Declarative
    /\ pc = "genwait"
    /\ act.op = "yield.progress"
    /\ nEvents = 2
    /\ ~gen.hasSubSteps
    /\ mp.tasks[handles[cur]].type = "spinner"
    /\ mp.tasks[handles[cur]].title = TitleProg(allNodes[cur].label, 1, 2)
    /\ Len(settled) = 1
    /\ mp.tasks[handles[settled[1].node]].type = "group"

YieldOps == {"yield.label", "yield.declare", "yield.progress", "yield"}
PullOps == YieldOps \cup {"return", "throw"}

\* C29: having processed an event of a generator the engine waits for one
\* timeout before it calls next() again: the step that processes the event
\* suspends the engine, nothing pulls while it is suspended, one wake-up
\* ends the wait, and while it lasts the interval timer is armed, so that a
\* tick that is due runs then and redraws the frame.
C29_OneYieldPerEvent ==
    [][/\ act'.op \in YieldOps => pc = "gen" /\ pc' = "genwait"
       /\ pc = "genwait" =>
             /\ act'.op \notin PullOps
             /\ act'.op \in {"resume", "tick", "step.outside"}
             /\ act'.op # "resume" => pc' = "genwait"
       /\ act'.op = "resume" => pc = "genwait" /\ pc' = "gen"
       /\ (act.op = "resume" /\ act'.op \in PullOps) => pc = "gen"
       /\ pc' = "genwait" =>
             /\ TickPoint'
             /\ mp'.isActive
             /\ mp'.timer \in mp'.timers
       /\ (pc = "genwait" /\ act'.op = "tick" /\ mp.tty) =>
             /\ mp'.frameIndex = mp.frameIndex + 1
             /\ Len(mp'.wrote) = 1 + Len(mp'.taskOrder)
             /\ \A i \in 1..Len(mp'.taskOrder) : mp'.screen[i] = FinalFrame(mp')[i]]_vars

C29_Witness ==
    /\ mode = "pipe"
    /\ pc = "gen"
    /\ work.variant = "gen"
    /\ act.op = "resume"
    /\ mp.tty
    /\ mp.frameIndex = 1
    /\ nEvents = 2
    /\ \A i \in 1..Len(mp.taskOrder) : mp.screen[i] = FinalFrame(mp)[i]

RedrawOps == {"add", "start", "tick"} \cup HandleOps

\* C30: on a TTY, while the instance is active, the redraw of add(), of a
\* handle operation, of a tick and of start() writes a cursor-up by the
\* line count recorded by the frame before (none if that is 0) and then one
\* line per record in list order, and records the number of lines as the
\* new count; after it the recorded count is the number of records and the
\* cursor is on the row right below the frame.
C30_RedrawOverPrevious ==
    [][/\ (mp'.tty /\ mp'.isActive /\ act'.op \in RedrawOps
           /\ ~(act'.op = "start" /\ mp.isActive)) =>
             LET n == Len(mp'.taskOrder)
                 k == mp.renderedLines
                 toks == IF act'.op = "start" THEN Tail(mp'.wrote) ELSE mp'.wrote
             IN /\ act'.op = "start" => Head(mp'.wrote) = CURSOR_HIDE
                /\ toks = (IF k > 0 THEN <<cursorUp(k)>> ELSE <<>>)
                          \o [i \in 1..n |-> LineTok(FinalFrame(mp')[i])]
                /\ mp'.renderedLines = n
                /\ mp'.row = (mp.row - k) + n
       /\ (mp'.tty /\ mp'.isActive) =>
             LET n == Len(mp'.taskOrder)
             IN /\ mp'.renderedLines = n
                /\ \A i \in 1..n : mp'.screen[mp'.row - n + i - 1] = FinalFrame(mp')[i]]_vars

C30_Witness ==
    /\ runner = "none"
    /\ act.op = "add"
    /\ act.prev = "h.start"
    /\ mp.tty /\ mp.isActive
    /\ mp.renderedLines = 2
    /\ mp.wrote[1] = cursorUp(1)
    /\ Len(mp.wrote) = 3
    /\ mp.row = 3

\* C31: the interval timer exists exactly while the instance is active, and
\* there is never more than one: start() on an inactive instance creates
\* one timer and on an active one none, stop() clears it, and a tick runs
\* only on an active instance - never once stop() has returned.
C31_TimerWhileActive ==
    [][/\ mp'.isActive <=> mp'.timers # {}
       /\ Cardinality(mp'.timers) <= 1
       /\ mp'.isActive => mp'.timers = {mp'.timer}
       /\ ~mp'.isActive => mp'.timer = NoId
       /\ act'.op = "start" =>
             mp'.timersMade = mp.timersMade + (IF mp.isActive THEN 0 ELSE 1)
       /\ act'.op # "start" => mp'.timersMade = mp.timersMade
       /\ act'.op = "stop" => mp'.timers = {} /\ ~mp'.isActive
       /\ act'.op = "tick" => mp.isActive /\ mp'.isActive /\ mp.timers = {mp.timer}]_vars

C31_Witness ==
    /\ runner = "none"
    /\ act.op = "start"
    /\ act.prev = "stop"
    /\ mp.timersMade = 2
    /\ mp.timers = {2}
    /\ mp.timer = 2
    /\ mp.isActive
    /\ mp.frameIndex = 1

\* The ids of `order' that are at most n, in the order of the list.
RECURSIVE selectIds(_, _)
selectIds(order, n) ==
    IF order = <<>> THEN <<>>
    ELSE IF Head(order) <= n
         THEN <<Head(order)>> \o selectIds(Tail(order), n)
         ELSE selectIds(Tail(order), n)

\* C32: throughout run() / pipe() the records of the declared nodes stand
\* in the list in flattened declaration order, no step removes a record
\* from the list or reorders the records that were there, and every record
\* a step adds while a leaf executes lies in that leaf's block: between the
\* leaf's record and the record of the next declared node.
C32_OrderIsFixed ==
    [][(Declarative /\ mode' = mode) =>
          LET n == Len(allNodes)
              m == Len(mp.tasks)
          IN /\ selectIds(mp'.taskOrder, n) = handles'
             /\ handles' = [i \in 1..n |-> i]
             /\ selectIds(mp'.taskOrder, m) = mp.taskOrder
             /\ Len(mp'.taskOrder) = Len(mp'.tasks)
             /\ \A k \in (m + 1)..Len(mp'.tasks) :
                   /\ pc \in {"body", "gen"}
                   /\ k \in Block(mp', cur)
                   /\ mp'.tasks[k].indent = allNodes[cur].indent + 1]_vars

C32_Witness ==
    /\ mode = "run"
    /\ Len(allNodes) = 5
    /\ cur = 4
    /\ act.op = "sub"
    /\ mp.taskOrder = <<1, 2, 3, 6, 4, 7, 5>>
    /\ mp.tasks[7].indent = 2
    /\ mp.tasks[6].indent = 3

\* C33: at every moment of run() / pipe(), of the sub-step records of a
\* leaf at most one is running.
C33_OneRunningSubStep ==
    Declarative =>
        \A l \in 1..Len(allNodes) :
            hasWork(allNodes[l]) =>
                Cardinality({id \in Block(mp, l) : mp.tasks[id].status = "running"}) <= 1

Terminal(status) == status \in {"completed", "failed", "skipped"}

\* C34: within one run() / pipe() a record's status only moves forward.  No
\* step takes a record that is completed or failed back to running or
\* pending; and whatever the generator yields next, a record that is
\* completed or failed when the event is taken up, or that the handling of
\* the event completes, is still so when the event has been handled.
C34_StatusMovesForward ==
    [][Declarative =>
          /\ \A id \in DOMAIN mp.tasks :
                Terminal(mp.tasks[id].status) =>
                    mp'.tasks[id].status = mp.tasks[id].status
          /\ pc = "gen" =>
                \A value \in Yields :
                    LET S == [w |-> Begin(mp), ctx |-> ctx]
                        mid == IF value.k = "label" THEN ctx_completeSubStep(S, now).w ELSE S.w
                        P == processEvent(S, gen, value, allNodes[cur], now)
                    IN \A id \in DOMAIN mp.tasks :
                          Terminal(mid.tasks[id].status) =>
                              P.S.w.tasks[id].status = mid.tasks[id].status]_vars

\* C35: when run() or pipe() has returned, the record of every declared
\* node - every leaf and every group, a group without leaves included - is
\* completed.
C35_AllCompletedOnReturn ==
    (Declarative /\ outcome.kind = "returned") =>
        \A i \in 1..Len(allNodes) : statusOf(handles[i]) = "completed"

\* C36: when run() or pipe() has raised because a leaf failed, no record is
\* running: the groups the failed leaf lies under and the sub-step that was
\* open are completed or failed.
C36_NothingRunningOnFailure ==
    (Declarative /\ outcome.kind = "rejected") =>
        \A id \in DOMAIN mp.tasks : statusOf(id) # "running"

\* The frames among the tokens an operation wrote: the runs of lines.
RECURSIVE framesOf(_, _, _)
framesOf(toks, frame, frames) ==
    IF toks = <<>>
    THEN IF frame = <<>> THEN frames ELSE Append(frames, frame)
    ELSE IF Head(toks).op = "line"
         THEN framesOf(Tail(toks), Append(frame, Head(toks).line), frames)
         ELSE framesOf(Tail(toks), <<>>,
                       IF frame = <<>> THEN frames ELSE Append(frames, frame))
Frames == framesOf(mp.wrote, <<>>, <<>>)

\* Group h lies inside group g.
Nested(g, h) == g < h /\ h < g + allNodes[g].span

\* C37: in every frame drawn during run() / pipe() that shows a group
\* completed, every group nested inside that group is shown completed too.
C37_InnerCompletedFirst ==
    (Declarative /\ mp.tty) =>
        \A i \in 1..Len(Frames) :
            Len(Frames[i]) = Len(mp.taskOrder) =>
                \A g \in GroupSet : \A h \in GroupSet :
                    (/\ Nested(g, h)
                     /\ Frames[i][RowOf(handles[g])].icon = STATUS_ICONS("completed")) =>
                        Frames[i][RowOf(handles[h])].icon = STATUS_ICONS("completed")


(***************************************************************************)
(* A second run() / pipe() on the same runner.  `multi' and `handles' are  *)
(* variables of the closure of stepsDeclarative, shared by every           *)
(* invocation: a later invocation assigns a new MultiProgress to `multi'   *)
(* and overwrites every entry of `handles'.  The world keeps the instance  *)
(* the earlier invocation created in the field `earlier'; the state        *)
(* variables mp and handles stay what the closure variables refer to.      *)
(* The later invocation is followed up to its first suspension, the        *)
(* earlier one up to its next setImmediate.                                *)
(***************************************************************************)
InstanceFields == {"tasks", "taskOrder", "isActive", "timer", "frameIndex", "renderedLines"}
instanceOf(w) == [f \in InstanceFields |-> w[f]]
withInstance(w, inst) ==
    [w EXCEPT !.tasks = inst.tasks, !.taskOrder = inst.taskOrder,
              !.isActive = inst.isActive, !.timer = inst.timer,
              !.frameIndex = inst.frameIndex, !.renderedLines = inst.renderedLines]

\* No later invocation has replaced `multi'.
Single == "earlier" \notin DOMAIN mp

InitRe ==
    \E d \in 1..Len(StepsDefs) :
        /\ InitEngine("declarative",
                      flattenStepNodes(parseStepsDef(StepsDefs[d], 0)), <<>>)
        /\ \E tty \in BOOLEAN : mp = NewMultiProgress(tty)

\* run() / pipe() is called again while the earlier invocation awaits the
\* work of leaf cur: multi = new MultiProgress(), registerAllSteps(allNodes,
\* multi, handles), multi.start(), then the first await.  executeStep of
\* the earlier invocation holds its own handle (ctx.handle) and multi.
Run_again ==
    /\ Single
    /\ mode \in {"run", "pipe"}
    /\ pc = "body"
    /\ work.variant = "deferred"
    /\ LET fresh == withInstance(Begin(mp), instanceOf(NewMultiProgress(mp.tty)))
           R == registerAllSteps(allNodes, [w |-> fresh, handles |-> <<>>], 1)
       IN /\ mp' = ("earlier" :> instanceOf(mp)) @@ MultiProgress_start(R.w)
          /\ handles' = R.handles
    /\ pc' = "again"
    /\ act' = Act("again", NoId)
    /\ UNCHANGED <<runner, allNodes, stepList, mode, clear, cur, groupStartTimes,
                   completedLeaves, results, previousResult, stepStart, ctx, work,
                   gen, pending, outcome, invoked, settled, thrown, nEvents>>

\* The work of the earlier invocation's leaf resolves: executeStep completes
\* the handle it holds, on the instance it belongs to; back in the loop the
\* groups are looked up in `handles'.
Return_again ==
    /\ pc = "again"
    /\ LET value == Apply(work.fn, work.args)
           own == withInstance(Begin(mp), mp.earlier)
           S1 == ctx_completeSubStep([w |-> own, ctx |-> ctx], now)
           w2 == TaskHandle_complete(S1.w, ctx.handle, TimeArg(now - stepStart))
           back == [withInstance(w2, instanceOf(mp)) EXCEPT !.earlier = instanceOf(w2)]
           done == completedLeaves \cup {cur}
       IN /\ results' = IF mode = "run"
                        THEN setNestedResult(results, allNodes[cur].key, value)
                        ELSE results
          /\ previousResult' = IF mode = "pipe" THEN value ELSE previousResult
          /\ completedLeaves' = done
          /\ mp' = completeGroups(back, leafToGroups(allNodes, cur), allNodes, done,
                                  groupStartTimes, handles, now)
          /\ settled' = Append(settled, [node |-> cur, value |-> value])
    /\ ctx' = NoContext
    /\ work' = NoWork
    /\ gen' = NoGen
    /\ pc' = "loop"
    /\ act' = Act("return", NoId)
    /\ UNCHANGED <<runner, allNodes, stepList, mode, clear, cur, handles,
                   groupStartTimes, stepStart, pending, outcome, invoked, thrown,
                   nEvents>>

NextRe ==
    \/ \E m \in {"run", "pipe"} : Begin_run(m)
    \/ LoopStep
    \/ \E v \in {"value", "deferred"} : Single /\ Invoke(v)
    \/ Return
    \/ \E c \in BOOLEAN : Finally(c)
    \/ Run_again
    \/ Return_again

SpecRe == InitRe /\ [][NextRe]_vars

\* C38: when run() / pipe() is invoked again while an earlier invocation
\* is suspended in a leaf, the earlier invocation changes no record of the
\* MultiProgress the later invocation created.
C38_OwnRecordsOnly ==
    [][~Single => mp'.tasks = mp.tasks]_vars


\* C39: on a TTY, when start() is called again after the stop() that ended
\* the instance's first span, the first redraw begins on the first row of
\* the region the instance drew (row 1 for a first span), so that the
\* frame lies on that region and no other row shows a line.
C39_RestartOnRegion ==
    [][(/\ act'.op = "start"
        /\ ~mp.isActive
        /\ mp.tty
        /\ mp.timersMade = 1
        /\ mp.renderedLines > 0) =>
          LET n == Len(mp'.taskOrder)
          IN /\ mp'.row - n = 1
             /\ Drawn(mp') = 1..n]_vars


\* C40: in the fluent mode, when execute() returns successfully every
\* record it registered is completed, one record per registered step, also
\* when two steps carry the same title.
C40_EveryStepCompleted ==
    (runner = "fluent" /\ outcome.kind = "returned") =>
        /\ Len(mp.tasks) >= Len(stepList)
        /\ \A i \in 1..Len(stepList) : statusOf(i) = "completed"

=============================================================================
